---- MODULE Spec2Model ----
(***************************************************************************)
(* A model of TinyTranscriptor: the transcribe request of App.tsx          *)
(* (transcribeAudio) driving the model session manager of                  *)
(* hooks/useTranscription.ts (initializeTranscriber).                      *)
(*                                                                         *)
(* JavaScript runs one task at a time, so every action below is one        *)
(* synchronous stretch of code between two awaits; the inference engine,   *)
(* fetch, the audio decoder and the timers are the environment and their   *)
(* answers are chosen nondeterministically.                                *)
(*                                                                         *)
(* App reaches initializeTranscriber, setLoading and setTranscript through *)
(* the object useTranscription returns, as the mock of the hook in         *)
(* test/App.test.tsx provides them.                                        *)
(*                                                                         *)
(* Spec is the request of src/App.tsx.  SpecFallback is the request of the *)
(* revision of App.tsx kept in unnamed/part_002, which walks a list of     *)
(* candidate models and gives every transcription configuration a timer    *)
(* of its own; both drive the same initializeTranscriber.                  *)
(*                                                                         *)
(* SpecRecording is the recorder of App.tsx (startRecording, stopRecording,*)
(* onstop, onerror, clearAll, the audioURL effect) with useAudioRecorder   *)
(* and the object URLs; SpecRecordingRequest runs it next to a transcribe  *)
(* request.  SpecProgress is the progress value of initializeTranscriber   *)
(* with its interval and timers.  SpecWav applies audioBufferToWav of      *)
(* utils/audioUtils.ts to a buffer.  SpecTimeouts is the request with its  *)
(* timers taken as fair and SpecChunks the recorder with the chunks its    *)
(* recorders deliver.                                                      *)
(*                                                                         *)
(* Sample values are Float32 numbers.  They are written here as integer    *)
(* multiples of 2^-16 (AmpUnit), all of which are exact Float32 values;    *)
(* the decimal thresholds 0.0001 and 0.1 are not multiples of 2^-16, just  *)
(* as they are not Float32 values, and are compared by cross               *)
(* multiplication.                                                         *)
(***************************************************************************)
EXTENDS Integers, Sequences, FiniteSets, TLC

\* ------------------------------------------------------------------ bounds
\* Loads (runs of the configuration loop) begun in one behaviour.
MaxLoads == 2
\* pipeline() calls abandoned by the 120 s timer and still running at one time.
MaxPending == 1
\* Samples of a buffer handed to audioBufferToWav.
MaxWavSamples == 2

\* ------------------------------------------------------- program constants
\* WHISPER_MODELS: key -> id handed to pipeline().
ModelKeys == {"tiny", "tiny.en", "base", "base.en", "small", "small.en"}

ModelId(k) ==
  CASE k = "tiny"     -> "Xenova/whisper-tiny"
    [] k = "tiny.en"  -> "Xenova/whisper-tiny.en"
    [] k = "base"     -> "Xenova/whisper-base"
    [] k = "base.en"  -> "Xenova/whisper-base.en"
    [] k = "small"    -> "Xenova/whisper-small"
    [] k = "small.en" -> "Xenova/whisper-small.en"

\* Keys the user picks in the selector in this model (inputs of SelectModel).
SelectableKeys == {"tiny.en", "base"}

\* fallbackConfigurations has six entries; transcriptionConfigs has four.
NumLoadConfigs == 6
NumInferConfigs == 4

\* Sample-value grid: 1.0 == AmpUnit.
AmpUnit == 2 ^ 16
\* Decimal thresholds as fractions: 0.0001 = 1/10000, 0.1 = 1/10.
WeakDen == 10000
QuietDen == 10
\* 0.5 / maxAmplitude: the normalisation target is 1/2.
TargetDen == 2
TargetSampleRate == 16000
MaxDurationS == 30
\* duration < 0.1 is len * 10 < rate.
MinDurationDen == 10
MinSamples == 160

\* ------------------------------------------------------------------ clips
\* A clip is what decodeAudioData yields for the URL: channel 0 holds `wave`
\* repeated up to `len` samples at `rate` Hz; ok = FALSE is a blob the decoder
\* rejects.
Clips ==
  << [len |-> 800,     rate |-> 16000, wave |-> <<19661, -19661>>, ok |-> TRUE],
     [len |-> 32000,   rate |-> 16000, wave |-> <<6, -2>>,         ok |-> TRUE],
     [len |-> 4409,    rate |-> 44100, wave |-> <<3000, -6553>>,   ok |-> TRUE],
     [len |-> 1600,    rate |-> 16000, wave |-> <<7, -3>>,         ok |-> TRUE],
     [len |-> 4410,    rate |-> 44100, wave |-> <<6, -6>>,         ok |-> TRUE],
     [len |-> 88200,   rate |-> 44100, wave |-> <<-6554, 100>>,    ok |-> TRUE],
     [len |-> 32000,   rate |-> 16000, wave |-> <<3000, -6553>>,   ok |-> TRUE],
     [len |-> 480000,  rate |-> 16000, wave |-> <<-700, 350>>,     ok |-> TRUE],
     [len |-> 480001,  rate |-> 16000, wave |-> <<19661, -19661>>, ok |-> TRUE],
     [len |-> 1323001, rate |-> 44100, wave |-> <<0, 5>>,          ok |-> TRUE],
     [len |-> 32000,   rate |-> 16000, wave |-> <<0, 0>>,          ok |-> FALSE] >>

ClipIds == 1 .. Len(Clips)
\* Files the user picks while a request is running (the file input stays
\* enabled then): one clip stands for all.
MidRequestClipIds == {7}
\* audioURL === null
NoClip == 0

\* --------------------------------------------------------- pure functions
Abs(x) == IF x < 0 THEN -x ELSE x

RECURSIVE GCD(_, _)
GCD(a, b) == IF b = 0 THEN a ELSE GCD(b, a % b)

CeilDiv(a, b) == (a + b - 1) \div b

\* Nearest integer to a / b for b > 0 (ties away from zero).
RoundDiv(a, b) ==
  IF a >= 0 THEN (2 * a + b) \div (2 * b) ELSE -((2 * (-a) + b) \div (2 * b))

\* A faulty TooLong: a clip of exactly 30 s counts as too long.
TooLongInclusive(c) == c.len >= MaxDurationS * c.rate

\* A faulty TooShort: the duration gate opens at 0.01 s.
TooShortHundredth(c) == c.len * MinDurationDen * 10 < c.rate

\* decodedAudioBuffer.duration = length / sampleRate, compared exactly.
TooLong(c) == c.len > MaxDurationS * c.rate
TooShort(c) == c.len * MinDurationDen < c.rate

\* OfflineAudioContext(1, Math.ceil(duration * 16000), 16000) rendering the
\* decoded buffer: the length is the code's, the waveform is the resampler's
\* (taken to keep the shape of the input).
Resample(c) ==
  LET g == GCD(TargetSampleRate, c.rate)
  IN  [len |-> CeilDiv(c.len * (TargetSampleRate \div g), c.rate \div g),
       wave |-> c.wave]

\* getChannelData(0), resampled when the decode rate is not 16 kHz.
AudioData(c) ==
  IF c.rate # TargetSampleRate THEN Resample(c)
  ELSE [len |-> c.len, wave |-> c.wave]

\* Math.max(...Array.from(audioData).map(val => Math.abs(val)))
RECURSIVE MaxAbs(_)
MaxAbs(w) ==
  IF w = <<>> THEN 0
  ELSE LET m == MaxAbs(Tail(w)) a == Abs(Head(w)) IN IF a > m THEN a ELSE m

MaxAmplitude(d) == MaxAbs(d.wave)

\* A faulty IsTooWeak: the silence threshold is 0.00001.
IsTooWeakTenth(p) == p * WeakDen * 10 < AmpUnit

\* maxAmplitude < 0.0001
IsTooWeak(p) == p * WeakDen < AmpUnit

\* A faulty NeedsNormalization: the quiet range reaches one grid step past
\* 0.1.
NeedsNormalizationPastQuiet(p) ==
  p * WeakDen > AmpUnit /\ (p - 1) * QuietDen < AmpUnit

\* maxAmplitude > 0.0001 && maxAmplitude < 0.1
NeedsNormalization(p) == p * WeakDen > AmpUnit /\ p * QuietDen < AmpUnit

\* audioData.map(sample => sample * (0.5 / maxAmplitude)), stored as Float32.
Scale(s, p) == RoundDiv(s * AmpUnit, TargetDen * p)

NormalizeWave(w, p) == [i \in 1 .. Len(w) |-> Scale(w[i], p)]

Normalize(d) ==
  LET p == MaxAmplitude(d)
  IN  IF NeedsNormalization(p)
      THEN [len |-> d.len, wave |-> NormalizeWave(d.wave, p)]
      ELSE d

\* ----------------------------------------------------------------- errors
\* An Error object is its message and the load configuration it came from
\* (0 when it did not come from a load attempt).
NoError == [msg |-> "", cfg |-> 0]

\* Messages the engine throws in this model.
EngineMessages == {"OrtRun failed", "unexpected failure"}

LoadTimeoutMsg == "Model loading timeout"
FetchFailedMsg == "Failed to fetch audio"
DecodeFailedMsg == "Unable to decode audio data"
InferTimeoutMsg == "Transcription timed out after 60s."
AllConfigsFailedMsg == "All transcription configurations failed."

\* message.includes(kw), for the messages above (includes is case sensitive).
Includes(msg, kw) ==
  CASE msg = "OrtRun failed"   -> kw \in {"OrtRun"}
    [] msg = LoadTimeoutMsg    -> kw \in {"timeout"}
    [] msg = FetchFailedMsg    -> kw \in {"fetch"}
    [] OTHER                   -> FALSE

\* What the user sees: a kind and, for the generic message, the message it
\* carries.
Shown(kind) == [kind |-> kind, detail |-> ""]
NoShown == Shown("none")

\* The inner catch of transcribeAudio: the message it shows, or NoShown when
\* it rethrows.
ClassifyInner(msg) ==
  IF Includes(msg, "OrtRun") \/ Includes(msg, "error code = 6")
       \/ Includes(msg, "Session") \/ Includes(msg, "backend")
  THEN Shown("OnnxDuringTranscription")
  ELSE IF Includes(msg, "out of memory") \/ Includes(msg, "OOM")
  THEN Shown("OutOfMemoryDuringTranscription")
  ELSE IF Includes(msg, "WebAssembly") \/ Includes(msg, "wasm")
  THEN Shown("WasmDuringTranscription")
  ELSE NoShown

\* A faulty main catch: an error of no category is not shown.
ClassifyMainNoGeneric(msg) ==
  IF Includes(msg, "timeout") THEN Shown("TimedOut")
  ELSE IF Includes(msg, "OrtRun") \/ Includes(msg, "ONNX") THEN Shown("OnnxFailed")
  ELSE IF Includes(msg, "memory") THEN Shown("OutOfMemory")
  ELSE IF Includes(msg, "network") \/ Includes(msg, "fetch") THEN Shown("Network")
  ELSE IF Includes(msg, "WebAssembly") \/ Includes(msg, "wasm") THEN Shown("Wasm")
  ELSE NoShown

\* The main catch of transcribeAudio.
ClassifyMain(msg) ==
  IF Includes(msg, "timeout") THEN Shown("TimedOut")
  ELSE IF Includes(msg, "OrtRun") \/ Includes(msg, "ONNX") THEN Shown("OnnxFailed")
  ELSE IF Includes(msg, "memory") THEN Shown("OutOfMemory")
  ELSE IF Includes(msg, "network") \/ Includes(msg, "fetch") THEN Shown("Network")
  ELSE IF Includes(msg, "WebAssembly") \/ Includes(msg, "wasm") THEN Shown("Wasm")
  ELSE [kind |-> "TranscriptionFailed", detail |-> msg]

\* ---------------------------------------------------------------- engines
\* An engine instance is the pipeline() call that built it: the load it
\* belongs to, the configuration, the model id; late = built by a call whose
\* configuration had already timed out.
NoEngine == [load |-> 0, cfg |-> 0, model |-> "", late |-> FALSE]
Engine(l, c, id) == [load |-> l, cfg |-> c, model |-> id, late |-> FALSE]
LateEngine == [load |-> 0, cfg |-> 0, model |-> "", late |-> TRUE]

NoAudio == [len |-> 0, wave |-> <<>>]

VARIABLES
  audioURL,         \* the clip the current object URL resolves to, or NoClip
  selectedModel,    \* useState<WhisperModelKey>
  recommendedModel, \* getBrowserCompatibility().recommendedModel
  loading,          \* transcription.loading
  modelLoading,     \* transcription.modelLoading
  error,            \* App's error state
  hookError,        \* useTranscription's error state
  transcript,       \* transcription.transcript
  transcriber,      \* transcriber.current
  currentModelRef,  \* currentModelRef.current ("" is null)
  pc,               \* where the transcribe request is suspended
  reqClip,          \* the audioURL the running request closed over
  modelId,          \* modelConfig.id of the running initializeTranscriber
  cfg,              \* index of the load configuration being tried
  lastError,        \* lastError of the configuration loop
  pipelineLocal,    \* transcriberPipeline of transcribeAudio
  processedAudio,   \* processedAudio of transcribeAudio
  icfg,             \* index i of the transcriptionConfigs loop
  timedOut,         \* the request's timeoutPromise has rejected
  pending,          \* pipeline() calls abandoned by a timeout, still running
  loads,            \* loads begun so far
  smokePassed,      \* live engines whose smoke test returned
  attempts,         \* history: configurations tried in the current load
  lastInit,         \* history: the latest initializeTranscriber call
  calls,            \* history: engine calls made by the latest request
  fb,               \* the model fallback loop of transcribeAudio
  recorder,         \* useAudioRecorder and the recording sessions of App
  objectURLs,       \* the object URL in audioURL and the URLs not yet revoked
  progress,         \* useTranscription's progress and its timers
  wav,              \* an AudioBuffer and the bytes audioBufferToWav returns
  abandoned         \* history: the handle on which inference calls of the
                    \* running request were left running by a timeout

vars ==
  << audioURL, selectedModel, recommendedModel, loading, modelLoading, error,
     hookError, transcript, transcriber, currentModelRef, pc, reqClip,
     modelId, cfg, lastError, pipelineLocal, processedAudio, icfg, timedOut,
     pending, loads, smokePassed, attempts, lastInit, calls, fb,
     recorder, objectURLs, progress, wav, abandoned >>

uiVars == << audioURL, selectedModel, recommendedModel, error, transcript >>
mgrVars == << transcriber, currentModelRef, smokePassed >>
loadVars == << modelId, cfg, lastError, attempts, lastInit, loads >>
inferVars == << processedAudio, icfg, timedOut >>
deviceVars == << recorder, objectURLs, progress, wav >>
sideVars == << recorder, objectURLs, progress, wav, abandoned >>

NoCalls == [constructs |-> 0, smoked |-> FALSE, infers |-> 0, done |-> FALSE,
            thrown |-> <<>>]
\* modelFallbackOrder, i, lastModelError and successfulModel of the latest
\* request, and the number of requests made.
NoFb == [order |-> <<>>, i |-> 0, lastModelError |-> "", successful |-> "",
         requests |-> 0]

\* Recording sessions begun by startRecording.
MaxSessions == 2

\* A recording session that has not begun. phase is where the session is:
\* "starting" (getUserMedia awaited), "active" (the recorder records),
\* "processing" (onstop awaits the decoder) or "ended"; closure is the
\* audioURL its startRecording closed over, tracks says the stream's tracks
\* are live, stops counts the calls of the recorder's stop(), how says how
\* the session ended; got counts the dataavailable events of its recorder,
\* sent those with data, and clip is what its onstop put in the Blob.
NoSession ==
  [phase |-> "none", closure |-> 0, tracks |-> FALSE, stops |-> 0, how |-> "",
   got |-> 0, sent |-> 0, clip |-> <<>>]

\* dataavailable events of one recorder.
MaxChunks == 2

\* useAudioRecorder after the first render: no recorder, no meter.  chunks
\* is audioChunks.current; a chunk is written as the session whose recorder
\* delivered it.
NoRecorder ==
  [isRecording |-> FALSE, ref |-> 0, frame |-> 0, meters |-> {},
   sessions |-> [s \in 1..MaxSessions |-> NoSession], mounted |-> TRUE,
   chunks |-> <<>>]

\* useState<string | null>(null): no object URL has been created.
NoURLs == [current |-> 0, live |-> {}]

\* useState(0): no load has begun, so no interval runs, no reset is due and
\* no pipeline() call reports its download.
NoProgress == [value |-> 0, intervals |-> 0, resets |-> 0, reporting |-> FALSE]

NoInit == [status |-> "none", id |-> "", handle |-> NoEngine,
           switched |-> FALSE, old |-> NoEngine, retry |-> FALSE]

\* The recommended-model effect of App: it runs after every change of
\* selectedModel.
ApplyRecommendation(k, rec) ==
  IF k = "tiny.en" /\ rec # "tiny.en" THEN rec ELSE k

\* No buffer has been encoded.
NoWav == [sampleRate |-> 0, data |-> <<>>, out |-> <<>>, encoded |-> FALSE]

\* The state of App and of useTranscription after the first render.
InitRequest ==
  /\ recommendedModel \in {"tiny.en", "tiny"}
  /\ selectedModel = ApplyRecommendation("tiny.en", recommendedModel)
  /\ audioURL = NoClip
  /\ loading = FALSE
  /\ modelLoading = FALSE
  /\ error = NoShown
  /\ hookError = NoError
  /\ transcript = <<>>
  /\ transcriber = NoEngine
  /\ currentModelRef = ""
  /\ pc = "idle"
  /\ reqClip = NoClip
  /\ modelId = ""
  /\ cfg = 0
  /\ lastError = NoError
  /\ pipelineLocal = NoEngine
  /\ processedAudio = NoAudio
  /\ icfg = 0
  /\ timedOut = FALSE
  /\ pending = 0
  /\ loads = 0
  /\ smokePassed = {}
  /\ attempts = <<>>
  /\ lastInit = NoInit
  /\ calls = NoCalls
  /\ fb = NoFb
  /\ abandoned = NoEngine

Init ==
  /\ InitRequest
  /\ recorder = NoRecorder
  /\ objectURLs = NoURLs
  /\ progress = NoProgress
  /\ wav = NoWav

\* ------------------------------------------------- recorder and object URLs
RecSessions == 1..MaxSessions

\* Object URLs are told apart by a number; 0 is null.
URLIds == 1..(2 * MaxSessions + 2)

\* stopAudioLevelMonitoring: the frame animationFrameRef holds is cancelled.
StopMonitoring(r) ==
  IF r.frame # 0
  THEN [r EXCEPT !.meters = @ \ {r.frame}, !.frame = 0]
  ELSE r

\* The recorder of session s, if it was recording, becomes inactive and its
\* onstop runs: new Blob(audioRecorder.audioChunks?.current || [], ...).
Stopped(r, s) ==
  IF r.sessions[s].phase = "active"
  THEN [r EXCEPT !.sessions[s].phase = "processing",
                 !.sessions[s].clip = r.chunks]
  ELSE r

\* cleanupRecording: the meter is stopped and the tracks of the stream of
\* mediaRecorderRef.current are stopped; a recorder that was recording stops
\* when its tracks end, and its onstop runs.
CleanupRecording(r) ==
  LET m == StopMonitoring(r)
  IN  IF m.ref # 0
      THEN Stopped([m EXCEPT !.sessions[m.ref].tracks = FALSE], m.ref)
      ELSE m

\* A faulty LiveAfterReplace: only the handler revokes, the effect does not.
LiveAfterHandlerOnly(closure) == objectURLs.live \ {closure}

\* The URLs left after audioURL is replaced: the handler revokes the
\* audioURL it closed over, and the cleanup of the audioURL effect, which
\* runs at every change of audioURL while the component is mounted, revokes
\* the audioURL it replaces.
LiveAfterReplace(closure) ==
  objectURLs.live
    \ ({closure} \cup (IF recorder.mounted THEN {objectURLs.current} ELSE {}))

\* URL.createObjectURL: a URL that differs from every URL that is live or
\* that a handler still to run has closed over.
FreshURL(left) ==
  LET held == left \cup {recorder.sessions[s].closure : s \in RecSessions}
  IN  CHOOSE u \in URLIds :
        u \notin held /\ \A v \in URLIds : v < u => v \in held

\* ------------------------------------------------------------- UI actions
\* handleFileChange, and the cleanup of the audioURL effect that follows
\* it; the file input is disabled while a model loads or a recording runs.
SelectFile(c) ==
  /\ recorder.mounted
  /\ ~(modelLoading \/ recorder.isRecording)
  /\ loading => c \in MidRequestClipIds
  /\ audioURL' = c
  /\ objectURLs' =
       LET left == LiveAfterReplace(objectURLs.current)
       IN  [current |-> FreshURL(left), live |-> left \cup {FreshURL(left)}]
  /\ recorder' = CleanupRecording(recorder)
  /\ transcript' = <<>>
  /\ error' = NoShown
  /\ UNCHANGED << selectedModel, recommendedModel, loading, modelLoading,
                  hookError, pc, reqClip, pipelineLocal, pending, fb,
                  progress, wav, abandoned, calls >>
  /\ UNCHANGED << mgrVars, loadVars, inferVars >>

\* The model selector's onChange followed by the recommended-model effect;
\* the selector is disabled while a model loads, a recording runs or a
\* transcription runs.
SelectModel(k) ==
  /\ recorder.mounted
  /\ ~(modelLoading \/ recorder.isRecording \/ loading)
  /\ selectedModel' = ApplyRecommendation(k, recommendedModel)
  /\ UNCHANGED << audioURL, recommendedModel, loading, modelLoading, error,
                  hookError, transcript, pc, reqClip, pipelineLocal, pending, fb, sideVars,
                  calls >>
  /\ UNCHANGED << mgrVars, loadVars, inferVars >>

\* A faulty TranscribeEnabled: a running transcription does not disable the
\* button.
TranscribeEnabledWhileLoading ==
  /\ recorder.mounted
  /\ audioURL # NoClip
  /\ ~modelLoading
  /\ ~recorder.isRecording

\* The Transcribe button is enabled.
TranscribeEnabled ==
  /\ recorder.mounted
  /\ audioURL # NoClip
  /\ ~loading
  /\ ~modelLoading
  /\ ~recorder.isRecording

\* -------------------------------------------------- initializeTranscriber
\* A faulty AlreadyLoaded: the held handle is never reused.
NeverAlreadyLoaded(id) == FALSE

\* The requested model is the one that is loaded: the handle is returned.
AlreadyLoaded(id) == transcriber # NoEngine /\ currentModelRef = id

\* Another model is loaded: its handle and bound id are cleared.
SwitchDrops(id) == transcriber # NoEngine /\ currentModelRef # id

\* A faulty HandleAfterSwitch: the old handle is kept while the new model
\* loads.
HandleKeptAfterSwitch(id) == transcriber

HandleAfterSwitch(id) == IF SwitchDrops(id) THEN NoEngine ELSE transcriber

\* A faulty RefAfterSwitch: the bound id is kept while the new model loads.
RefKeptAfterSwitch(id) == currentModelRef

RefAfterSwitch(id) == IF SwitchDrops(id) THEN "" ELSE currentModelRef

\* A faulty NextCfg: every second configuration is skipped.
NextCfgSkipping(i) == i + 2

\* for (const config of fallbackConfigurations): the configuration after i.
NextCfg(i) == i + 1

Attempt(i) == [cfg |-> i, result |-> "pending"]

MarkLast(result) == [attempts EXCEPT ![Len(attempts)].result = result]

\* The reset at the top of transcribeAudio.
RequestReset ==
  /\ loading' = TRUE
  /\ transcript' = <<>>
  /\ error' = NoShown
  /\ reqClip' = audioURL

\* Click on Transcribe with the selected model loaded: initializeTranscriber
\* returns the held handle and the request goes on to fetch the clip.
TranscribeClickLoaded ==
  /\ TranscribeEnabled
  /\ pc = "idle"
  /\ AlreadyLoaded(ModelId(selectedModel))
  /\ RequestReset
  /\ pipelineLocal' = transcriber
  /\ lastInit' = [status |-> "returned", id |-> ModelId(selectedModel),
                  handle |-> transcriber, switched |-> FALSE,
                  old |-> NoEngine, retry |-> FALSE]
  /\ calls' = NoCalls
  /\ pc' = "fetch"
  /\ UNCHANGED << audioURL, selectedModel, recommendedModel, modelLoading,
                  hookError, modelId, cfg, lastError, attempts, loads,
                  pending, fb, sideVars >>
  /\ UNCHANGED << mgrVars, inferVars >>

\* Click on Transcribe with no model or another model loaded:
\* initializeTranscriber drops the old handle, raises modelLoading and calls
\* pipeline() with the first configuration.
TranscribeClickLoad ==
  /\ TranscribeEnabled
  /\ pc = "idle"
  /\ ~AlreadyLoaded(ModelId(selectedModel))
  /\ loads < MaxLoads
  /\ RequestReset
  /\ transcriber' = HandleAfterSwitch(ModelId(selectedModel))
  /\ currentModelRef' = RefAfterSwitch(ModelId(selectedModel))
  /\ modelId' = ModelId(selectedModel)
  /\ modelLoading' = TRUE
  /\ loads' = loads + 1
  /\ cfg' = 1
  /\ lastError' = NoError
  /\ attempts' = << Attempt(1) >>
  /\ smokePassed' = smokePassed \cap {HandleAfterSwitch(ModelId(selectedModel))}
  /\ lastInit' = [status |-> "running", id |-> ModelId(selectedModel),
                  handle |-> NoEngine,
                  switched |-> SwitchDrops(ModelId(selectedModel)),
                  old |-> transcriber,
                  retry |-> lastInit.status = "threw"
                            /\ lastInit.id = ModelId(selectedModel)]
  /\ calls' = [NoCalls EXCEPT !.constructs = 1]
  /\ pc' = "constructing"
  /\ UNCHANGED << audioURL, selectedModel, recommendedModel, hookError,
                  pipelineLocal, pending, fb, sideVars >>
  /\ UNCHANGED inferVars

\* lastError = null; break: the loop is left with handle h in
\* transcriber.current; the id is bound, modelLoading drops, h is returned and
\* transcribeAudio goes on to fetch the clip.
Accept(h) ==
  /\ lastError' = NoError
  /\ attempts' = MarkLast("accepted")
  /\ currentModelRef' = modelId
  /\ modelLoading' = FALSE
  /\ pipelineLocal' = h
  /\ lastInit' = [lastInit EXCEPT !.status = "returned", !.handle = h,
                                  !.old = NoEngine]
  /\ cfg' = 0
  /\ modelId' = ""
  /\ pc' = "fetch"
  /\ UNCHANGED << uiVars, loading, hookError, reqClip, pending, fb, sideVars, loads >>
  /\ UNCHANGED inferVars

\* A faulty ConstructOk: the instance pipeline() returned is accepted without
\* the smoke test.
ConstructOkUntested ==
  /\ pc = "constructing"
  /\ transcriber' = Engine(loads, cfg, modelId)
  /\ Accept(Engine(loads, cfg, modelId))
  /\ UNCHANGED << smokePassed, calls >>

\* pipeline() resolves before the timeout: the instance is stored in
\* transcriber.current and the smoke test is called on it.
ConstructOk ==
  /\ pc = "constructing"
  /\ transcriber' = Engine(loads, cfg, modelId)
  /\ calls' = [calls EXCEPT !.smoked = TRUE]
  /\ pc' = "smoke"
  /\ UNCHANGED << uiVars, loading, modelLoading, hookError, currentModelRef,
                  smokePassed, reqClip, pipelineLocal, pending, fb, sideVars >>
  /\ UNCHANGED << loadVars, inferVars >>

\* A faulty ErrorOf: the first error of the loop is kept, not the last.
FirstErrorKept(msg, i) ==
  IF lastError = NoError THEN [msg |-> msg, cfg |-> i] ELSE lastError

\* lastError = e instanceof Error ? e : new Error(String(e)), for the error
\* thrown while configuration i was tried.
ErrorOf(msg, i) == [msg |-> msg, cfg |-> i]

\* The catch of the configuration loop: lastError = e, the handle is
\* cleared, and the loop waits one second.
ConfigFailed(msg) ==
  /\ lastError' = ErrorOf(msg, cfg)
  /\ transcriber' = NoEngine
  /\ attempts' = MarkLast("failed")
  /\ pc' = "backoff"
  /\ UNCHANGED << uiVars, loading, modelLoading, hookError, currentModelRef,
                  smokePassed, reqClip, pipelineLocal, calls, modelId, cfg,
                  lastInit, loads >>
  /\ UNCHANGED inferVars

\* pipeline() rejects.
ConstructThrows(msg) ==
  /\ pc = "constructing"
  /\ ConfigFailed(msg)
  /\ UNCHANGED << pending, fb, sideVars >>

\* The 120 s timer wins the race; pipeline() keeps running unobserved.
ConstructTimeout ==
  /\ pc = "constructing"
  /\ pending < MaxPending
  /\ ConfigFailed(LoadTimeoutMsg)
  /\ pending' = pending + 1
  /\ UNCHANGED << fb, sideVars >>

\* A faulty LateConstructionCompletes: the late instance is stored in
\* transcriber.current.
LateConstructionInstalls ==
  /\ pending > 0
  /\ pending' = pending - 1
  /\ UNCHANGED << fb, sideVars >>
  /\ transcriber' = LateEngine
  /\ UNCHANGED << uiVars, loading, modelLoading, hookError, pc, reqClip,
                  pipelineLocal, calls, currentModelRef, smokePassed >>
  /\ UNCHANGED << loadVars, inferVars >>

\* An abandoned pipeline() call resolves: Promise.race has settled, nothing
\* reads the value.
LateConstructionCompletes ==
  /\ pending > 0
  /\ pending' = pending - 1
  /\ UNCHANGED << fb, sideVars >>
  /\ UNCHANGED << uiVars, loading, modelLoading, hookError, pc, reqClip,
                  pipelineLocal, calls >>
  /\ UNCHANGED << mgrVars, loadVars, inferVars >>

\* The smoke test throws.
SmokeThrows(msg) ==
  /\ pc = "smoke"
  /\ ConfigFailed(msg)
  /\ UNCHANGED << pending, fb, sideVars >>

\* The smoke test returns.
SmokeOk ==
  /\ pc = "smoke"
  /\ smokePassed' = smokePassed \cup {transcriber}
  /\ Accept(transcriber)
  /\ UNCHANGED << transcriber, calls >>

\* After the one-second wait the loop takes the next configuration.
NextConfiguration ==
  /\ pc = "backoff"
  /\ cfg < NumLoadConfigs
  /\ cfg' = NextCfg(cfg)
  /\ attempts' = Append(attempts, Attempt(NextCfg(cfg)))
  /\ calls' = [calls EXCEPT !.constructs = @ + 1]
  /\ pc' = "constructing"
  /\ UNCHANGED << uiVars, loading, modelLoading, hookError, reqClip,
                  pipelineLocal, pending, fb, sideVars, modelId, lastError,
                  lastInit, loads >>
  /\ UNCHANGED << mgrVars, inferVars >>

\* The end of a request: the finally of transcribeAudio.
Finally ==
  /\ loading' = FALSE
  /\ pc' = "idle"
  /\ reqClip' = NoClip
  /\ pipelineLocal' = NoEngine
  /\ processedAudio' = NoAudio
  /\ icfg' = 0
  /\ timedOut' = FALSE
  /\ abandoned' = NoEngine

\* What is kept of a request's calls once it has ended: whether any was made.
Sign(n) == IF n > 0 THEN 1 ELSE 0

Ended ==
  [constructs |-> Sign(calls.constructs), smoked |-> calls.smoked,
   infers |-> Sign(calls.infers), done |-> TRUE, thrown |-> <<>>]

\* The request ends showing shown, with c kept of its calls.
FinishWith(shown, c) ==
  /\ error' = shown
  /\ calls' = c
  /\ Finally

\* setError(shown); return, or a throw the main catch turned into shown.
Finish(shown) == FinishWith(shown, Ended)

\* After the last configuration failed: throw lastError; the hook records
\* it, drops modelLoading and rethrows; transcribeAudio's main catch shows
\* it.
LoadFailed ==
  /\ pc = "backoff"
  /\ cfg >= NumLoadConfigs
  /\ hookError' = lastError
  /\ modelLoading' = FALSE
  /\ lastInit' = [lastInit EXCEPT !.status = "threw", !.old = NoEngine]
  /\ lastError' = NoError
  /\ cfg' = 0
  /\ modelId' = ""
  /\ Finish(ClassifyMain(lastError.msg))
  /\ UNCHANGED << audioURL, selectedModel, recommendedModel, transcript,
                  pending, fb, sideVars, attempts, loads >>
  /\ UNCHANGED mgrVars

\* ------------------------------------------------------------------- text
\* A text is a sequence of characters: "[", "]", " " and letters.
RECURSIVE TrimLeft(_)
TrimLeft(t) ==
  IF t = <<>> THEN <<>> ELSE IF Head(t) = " " THEN TrimLeft(Tail(t)) ELSE t

RECURSIVE TrimRight(_)
TrimRight(t) ==
  IF t = <<>> THEN <<>>
  ELSE IF t[Len(t)] = " " THEN TrimRight(SubSeq(t, 1, Len(t) - 1)) ELSE t

\* String.prototype.trim
Trim(t) == TrimRight(TrimLeft(t))

\* !text || text.trim().length === 0
IsBlank(t) == Trim(t) = <<>>

\* text.trim().replace(/^\[.*?\]\s*/, '')
CleanText(t) ==
  LET u == Trim(t)
      closers == {j \in 2 .. Len(u) : u[j] = "]"}
  IN  IF u # <<>> /\ u[1] = "[" /\ closers # {}
      THEN LET j == CHOOSE x \in closers : \A y \in closers : x <= y
           IN  TrimLeft(SubSeq(u, j + 1, Len(u)))
      ELSE u

\* parts.join(' ')
RECURSIVE Join(_)
Join(parts) ==
  IF parts = <<>> THEN <<>>
  ELSE IF Len(parts) = 1 THEN parts[1]
  ELSE parts[1] \o <<" ">> \o Join(Tail(parts))

\* ---------------------------------------------------------------- results
\* What an inference call resolves to: a string, an object (with a text
\* field, with a chunks array, or with neither), an array, a number, or null.
\* The elements of chunks and of an array are strings, objects with a text
\* field (empty when the field is missing), or null.
Result(shape, text, hasChunks, items) ==
  [shape |-> shape, text |-> text, hasChunks |-> hasChunks, items |-> items]

Item(kind, text) == [kind |-> kind, text |-> text]
NullItem == Item("null", <<>>)

Hi == << "h", " ", "i" >>
\* A text that is a bracketed marker and nothing else, as "[BLANK_AUDIO]".
Marker == << "[", "m", "]" >>

Results ==
  { Result("string", Hi, FALSE, <<>>),
    Result("object", Marker, FALSE, <<>>),
    Result("string", <<>>, FALSE, <<>>),
    Result("object", Hi, FALSE, <<>>),
    Result("object", <<>>, FALSE, <<>>),
    Result("object", << " " >>, FALSE, <<>>),
    Result("object", <<>>, TRUE,
           << Item("object", <<"h">>), Item("object", <<"i">>) >>),
    Result("object", <<>>, TRUE, << Item("object", <<"h">>), NullItem >>),
    Result("array", <<>>, FALSE,
           << Item("string", <<"h">>), Item("object", <<"i">>) >>),
    Result("array", <<>>, FALSE, << NullItem >>),
    Result("array", <<>>, FALSE, <<>>),
    Result("number", <<>>, FALSE, <<>>),
    Result("null", <<>>, FALSE, <<>>) }

\* !result
Falsy(r) == r.shape = "null" \/ (r.shape = "string" /\ r.text = <<>>)

\* chunks.map(chunk => chunk.text)
ChunkTexts(items) ==
  [i \in 1 .. Len(items) |->
     IF items[i].kind = "object" THEN items[i].text ELSE <<>>]

\* result.map(r => (typeof r === 'string' ? r : r.text || ''))
ElementTexts(items) == [i \in 1 .. Len(items) |-> items[i].text]

TypeErrorMsg == "Cannot read properties of null (reading 'text')"

\* The post-processing reads .text of a null element.
ExtractThrows(r) ==
  /\ \/ r.shape = "object" /\ r.hasChunks
     \/ r.shape = "array"
  /\ \E i \in 1 .. Len(r.items) : r.items[i].kind = "null"

\* The post-processing of transcribeAudio.
ExtractText(r) ==
  IF r.shape = "string" THEN r.text
  ELSE IF r.shape = "object" /\ r.hasChunks THEN Join(ChunkTexts(r.items))
  ELSE IF r.shape = "object" /\ r.text # <<>> THEN r.text
  ELSE IF r.shape = "array" THEN Join(ElementTexts(r.items))
  ELSE <<>>

\* A retry that takes a bare string as its text too.
RetryTextAnyShape(r) == IF r.shape \in {"string", "object"} THEN r.text ELSE <<>>

\* retryResult?.text || ''
RetryText(r) == IF r.shape = "object" THEN r.text ELSE <<>>

\* ------------------------------------------------ fetch, decode, condition
reqVarsKept == << audioURL, selectedModel, recommendedModel, modelLoading,
                 hookError, pending, fb, deviceVars >>

\* A throw that reaches the main catch.
ThrowToMain(msg) ==
  /\ Finish(ClassifyMain(msg))
  /\ UNCHANGED << reqVarsKept, transcript, mgrVars, loadVars >>

\* setError(...); return from inside the try.
Reject(kind) ==
  /\ Finish(Shown(kind))
  /\ UNCHANGED << reqVarsKept, transcript, mgrVars, loadVars >>

\* fetch(audioURL) answers with !response.ok, or rejects.
FetchFails ==
  /\ pc = "fetch"
  /\ ThrowToMain(FetchFailedMsg)

\* The response, its blob and its arrayBuffer arrive; decodeAudioData is
\* called.
FetchOk ==
  /\ pc = "fetch"
  /\ pc' = "decode"
  /\ UNCHANGED << uiVars, loading, modelLoading, hookError, reqClip,
                  pipelineLocal, pending, fb, sideVars, calls >>
  /\ UNCHANGED << mgrVars, loadVars, inferVars >>

\* decodeAudioData rejects.
DecodeFails ==
  /\ pc = "decode"
  /\ ~Clips[reqClip].ok
  /\ ThrowToMain(DecodeFailedMsg)

\* A faulty DurationGate: no clip is rejected for its duration.
DurationGateOpen(c) == "ok"

\* if (duration > 30) ... if (duration < 0.1) ...
DurationGate(c) ==
  IF TooLong(c) THEN "TooLong" ELSE IF TooShort(c) THEN "TooShort" ELSE "ok"

\* The decoded clip fails the duration gate.
DurationGateRejects ==
  /\ pc = "decode"
  /\ Clips[reqClip].ok
  /\ DurationGate(Clips[reqClip]) # "ok"
  /\ Reject(DurationGate(Clips[reqClip]))

\* The clip passed the gate at another rate than 16 kHz: startRendering is
\* awaited.
DecodedStartsResample ==
  /\ pc = "decode"
  /\ Clips[reqClip].ok
  /\ DurationGate(Clips[reqClip]) = "ok"
  /\ Clips[reqClip].rate # TargetSampleRate
  /\ pc' = "resample"
  /\ UNCHANGED << uiVars, loading, modelLoading, hookError, reqClip,
                  pipelineLocal, pending, fb, sideVars, calls >>
  /\ UNCHANGED << mgrVars, loadVars, inferVars >>

ResampleFailedMsg == "Rendering failed"

\* startRendering rejects.
ResampleFails ==
  /\ pc = "resample"
  /\ ThrowToMain(ResampleFailedMsg)

\* The mono 16 kHz data is at hand: after startRendering, or straight after
\* the duration gate for a 16 kHz clip.
DataAtHand ==
  \/ pc = "resample"
  \/ /\ pc = "decode"
     /\ Clips[reqClip].ok
     /\ DurationGate(Clips[reqClip]) = "ok"
     /\ Clips[reqClip].rate = TargetSampleRate

\* The quality checks after the amplitude analysis, in the code's order.
Analysis(d) ==
  IF IsTooWeak(MaxAmplitude(d)) THEN "TooWeak"
  ELSE IF Normalize(d).len = 0 THEN "EmptyAudio"
  ELSE IF Normalize(d).len < MinSamples THEN "TooShortProcessed"
  ELSE "ok"

AnalysisRejects ==
  /\ DataAtHand
  /\ Analysis(AudioData(Clips[reqClip])) # "ok"
  /\ Reject(Analysis(AudioData(Clips[reqClip])))

\* The clip is conditioned: the 60 s timer is armed and the engine is called
\* with the first transcription configuration.
AnalysisStartsInference ==
  /\ DataAtHand
  /\ Analysis(AudioData(Clips[reqClip])) = "ok"
  /\ processedAudio' = Normalize(AudioData(Clips[reqClip]))
  /\ icfg' = 1
  /\ timedOut' = FALSE
  /\ calls' = [calls EXCEPT !.infers = @ + 1]
  /\ pc' = "infer"
  /\ UNCHANGED << uiVars, loading, modelLoading, hookError, reqClip,
                  pipelineLocal, pending, fb, sideVars >>
  /\ UNCHANGED << mgrVars, loadVars >>

\* -------------------------------------------------------------- inference
\* The inner catch of transcribeAudio shows the error or rethrows it to the
\* main catch.
Classify(msg) ==
  IF ClassifyInner(msg) # NoShown THEN ClassifyInner(msg) ELSE ClassifyMain(msg)

InferenceThrew(msg) ==
  /\ Finish(Classify(msg))
  /\ UNCHANGED << reqVarsKept, transcript, mgrVars, loadVars >>

\* The first error a configuration of this request threw.
FirstThrown(msg) == IF calls.thrown = <<>> THEN msg ELSE calls.thrown[1]

\* A faulty rethrow: the error of the first configuration that failed.
RethrownFirst(msg) == FirstThrown(msg)

\* if (i === transcriptionConfigs.length - 1) throw configError
Rethrown(msg) == msg

\* The catch inside the transcriptionConfigs loop: the last configuration
\* rethrows, any other one moves on and calls the engine again.
InferConfigFailed(msg) ==
  IF icfg = NumInferConfigs
  THEN /\ FinishWith(Classify(Rethrown(msg)),
                     [Ended EXCEPT !.thrown = << FirstThrown(msg), msg >>])
       /\ UNCHANGED << reqVarsKept, transcript, mgrVars, loadVars >>
  ELSE /\ icfg' = icfg + 1
       /\ calls' = [calls EXCEPT !.infers = @ + 1,
                                 !.thrown = << FirstThrown(msg) >>]
       /\ UNCHANGED << uiVars, loading, modelLoading, hookError, pc, reqClip,
                       pipelineLocal, processedAudio, pending, fb, deviceVars >>
       /\ UNCHANGED << mgrVars, loadVars >>

\* A non-empty text: it is cleaned and becomes the transcript.
FinishWithText(t) ==
  /\ transcript' = CleanText(t)
  /\ calls' = Ended
  /\ Finally
  /\ UNCHANGED << reqVarsKept, error, mgrVars, loadVars >>

\* The engine call of the current configuration throws.
InferThrows(msg) ==
  /\ pc = "infer"
  /\ ~timedOut
  /\ InferConfigFailed(msg)
  /\ icfg < NumInferConfigs => UNCHANGED << timedOut, abandoned >>

\* The request's one 60 s timer fires while a configuration is awaited.
InferTimeout ==
  /\ pc = "infer"
  /\ ~timedOut
  /\ InferConfigFailed(InferTimeoutMsg)
  /\ icfg < NumInferConfigs => (timedOut' = TRUE /\ abandoned' = pipelineLocal)

\* A configuration raced against the timer that has already fired: the race
\* rejects at once.
InferRaceLost ==
  /\ pc = "infer"
  /\ timedOut
  /\ InferConfigFailed(InferTimeoutMsg)
  /\ icfg < NumInferConfigs => (timedOut' = TRUE /\ abandoned' = pipelineLocal)

\* The engine call of the current configuration resolves with r.
InferReturns(r) ==
  /\ pc = "infer"
  /\ ~timedOut
  /\ IF Falsy(r)
     THEN InferenceThrew(AllConfigsFailedMsg)
     ELSE IF ExtractThrows(r)
     THEN InferenceThrew(TypeErrorMsg)
     ELSE IF IsBlank(ExtractText(r))
     THEN /\ pc' = "retry"
          /\ calls' = [calls EXCEPT !.infers = @ + 1]
          /\ UNCHANGED << uiVars, loading, modelLoading, hookError, reqClip,
                          pipelineLocal, pending, fb, sideVars >>
          /\ UNCHANGED << mgrVars, loadVars, inferVars >>
     ELSE FinishWithText(ExtractText(r))

\* The retry call resolves with r.
RetryReturns(r) ==
  /\ pc = "retry"
  /\ IF IsBlank(RetryText(r))
     THEN Reject("NoSpeech")
     ELSE FinishWithText(RetryText(r))

\* The retry call throws.
RetryThrows(msg) ==
  /\ pc = "retry"
  /\ InferenceThrew(msg)

\* The inference calls a timeout left running settle; the race they were in
\* is over and nothing awaits them.
AbandonedInferSettles ==
  /\ abandoned # NoEngine
  /\ abandoned' = NoEngine
  /\ UNCHANGED << uiVars, loading, modelLoading, hookError, pc, reqClip,
                  pipelineLocal, pending, fb, deviceVars, calls >>
  /\ UNCHANGED << mgrVars, loadVars, inferVars >>

\* ---------------------------------------------------------- specification
Next ==
  \/ \E c \in ClipIds : SelectFile(c)
  \/ \E k \in SelectableKeys : SelectModel(k)
  \/ TranscribeClickLoaded
  \/ TranscribeClickLoad
  \/ ConstructOk
  \/ \E m \in EngineMessages : ConstructThrows(m)
  \/ ConstructTimeout
  \/ LateConstructionCompletes
  \/ SmokeOk
  \/ \E m \in EngineMessages : SmokeThrows(m)
  \/ NextConfiguration
  \/ LoadFailed
  \/ FetchFails
  \/ FetchOk
  \/ DecodeFails
  \/ DurationGateRejects
  \/ DecodedStartsResample
  \/ ResampleFails
  \/ AnalysisRejects
  \/ AnalysisStartsInference
  \/ \E r \in Results : InferReturns(r)
  \/ \E m \in EngineMessages : InferThrows(m)
  \/ InferTimeout
  \/ InferRaceLost
  \/ \E r \in Results : RetryReturns(r)
  \/ \E m \in EngineMessages : RetryThrows(m)
  \/ AbandonedInferSettles

Spec == Init /\ [][Next]_vars

\* ------------------------------------------- transcribeAudio with fallback
\* The revision of transcribeAudio that walks a list of candidate models.
MaxFallbackRequests == 1

\* ['tiny.en', 'tiny', 'base.en', 'base']
PreferenceOrder == << "tiny.en", "tiny", "base.en", "base" >>

\* A faulty modelFallbackOrder: the selected key is not filtered out.
ModelFallbackOrderUnfiltered(sel) == << sel >> \o PreferenceOrder

\* [selectedModel, ...preference.filter(model => model !== selectedModel
\*                                               && WHISPER_MODELS[model])]
modelFallbackOrder(sel) ==
  << sel >> \o SelectSeq(PreferenceOrder, LAMBDA m : m # sel /\ m \in ModelKeys)

\* initializeTranscriber(modelToTry) returned handle h: successfulModel is
\* set, a fallback candidate becomes the selected model (after which the
\* recommended-model effect runs) and the loop is left.
CandidateLoaded(f, h) ==
  /\ fb' = [f EXCEPT !.successful = f.order[f.i]]
  /\ selectedModel' = IF f.order[f.i] # f.order[1]
                      THEN ApplyRecommendation(f.order[f.i], recommendedModel)
                      ELSE selectedModel
  /\ pipelineLocal' = h
  /\ pc' = "fetch"

\* Iteration f.i of the candidate loop calls initializeTranscriber for the
\* candidate: the held handle is returned, or a load begins; c are the
\* request's calls so far.
TryCandidate(f, c) ==
  LET id == ModelId(f.order[f.i])
  IN  IF AlreadyLoaded(id)
      THEN /\ CandidateLoaded(f, transcriber)
           /\ lastInit' = [status |-> "returned", id |-> id,
                           handle |-> transcriber, switched |-> FALSE,
                           old |-> NoEngine, retry |-> FALSE]
           /\ calls' = c
           /\ UNCHANGED << mgrVars, modelLoading, modelId, cfg, lastError,
                           attempts, loads >>
      ELSE /\ transcriber' = HandleAfterSwitch(id)
           /\ currentModelRef' = RefAfterSwitch(id)
           /\ smokePassed' = smokePassed \cap {HandleAfterSwitch(id)}
           /\ modelId' = id
           /\ modelLoading' = TRUE
           /\ loads' = loads + 1
           /\ cfg' = 1
           /\ lastError' = NoError
           /\ attempts' = << Attempt(1) >>
           /\ lastInit' = [status |-> "running", id |-> id,
                           handle |-> NoEngine, switched |-> SwitchDrops(id),
                           old |-> transcriber,
                           retry |-> lastInit.status = "threw"
                                     /\ lastInit.id = id]
           /\ calls' = [c EXCEPT !.constructs = @ + 1]
           /\ fb' = f
           /\ pc' = "constructing"
           /\ UNCHANGED << selectedModel, pipelineLocal >>

\* Click on Transcribe: the reset, the candidate list, the first candidate.
FbTranscribeClick ==
  /\ TranscribeEnabled
  /\ pc = "idle"
  /\ fb.requests < MaxFallbackRequests
  /\ RequestReset
  /\ TryCandidate([order |-> modelFallbackOrder(selectedModel), i |-> 1,
                   lastModelError |-> "", successful |-> "",
                   requests |-> fb.requests + 1], NoCalls)
  /\ UNCHANGED << audioURL, recommendedModel, hookError, pending >>
  /\ UNCHANGED << inferVars, sideVars >>

\* The smoke test of the candidate's instance returns: the hook binds the id
\* and returns the handle.
FbSmokeOk ==
  /\ pc = "smoke"
  /\ smokePassed' = smokePassed \cup {transcriber}
  /\ lastError' = NoError
  /\ attempts' = MarkLast("accepted")
  /\ currentModelRef' = modelId
  /\ modelLoading' = FALSE
  /\ lastInit' = [lastInit EXCEPT !.status = "returned",
                                  !.handle = transcriber, !.old = NoEngine]
  /\ cfg' = 0
  /\ modelId' = ""
  /\ CandidateLoaded(fb, transcriber)
  /\ UNCHANGED << audioURL, recommendedModel, error, transcript, loading,
                  hookError, reqClip, pending, loads, transcriber, calls >>
  /\ UNCHANGED << inferVars, sideVars >>

NoModelAvailable(msg) == [kind |-> "NoModelAvailable", detail |-> msg]

\* A faulty LastModelError: the error of the first candidate that failed.
FirstModelError(msg) ==
  IF fb.lastModelError = "" THEN msg ELSE fb.lastModelError

\* lastModelError = modelError
LastModelError(msg) == msg

\* The candidate's last configuration failed: the hook records the error and
\* rethrows; the loop's catch keeps it and waits 1.5 s before the next
\* candidate; after the last candidate the no-model message is shown and the
\* request ends.
FbLoadFailed ==
  /\ pc = "backoff"
  /\ cfg >= NumLoadConfigs
  /\ hookError' = lastError
  /\ modelLoading' = FALSE
  /\ lastInit' = [lastInit EXCEPT !.status = "threw", !.old = NoEngine]
  /\ lastError' = NoError
  /\ cfg' = 0
  /\ modelId' = ""
  /\ fb' = [fb EXCEPT !.lastModelError = LastModelError(lastError.msg)]
  /\ IF fb.i < Len(fb.order)
     THEN /\ pc' = "modelBackoff"
          /\ UNCHANGED << error, calls, loading, reqClip, pipelineLocal >>
          /\ UNCHANGED inferVars
     ELSE Finish(NoModelAvailable(LastModelError(lastError.msg)))
  /\ UNCHANGED << audioURL, selectedModel, recommendedModel, transcript,
                  pending, attempts, loads >>
  /\ UNCHANGED << mgrVars, sideVars >>

\* After the 1.5 s wait the loop takes the next candidate.
FbNextCandidate ==
  /\ pc = "modelBackoff"
  /\ TryCandidate([fb EXCEPT !.i = @ + 1], calls)
  /\ UNCHANGED << audioURL, recommendedModel, error, transcript, loading,
                  hookError, reqClip, pending >>
  /\ UNCHANGED << inferVars, sideVars >>

\* The transcription loop of the revision with fallback: five
\* configurations, a 60 s timer of its own for each, a one-second wait
\* after a failed one, and catches that compare the lowercased message.
NumFbInferConfigs == 5

FbInferTimeoutMsg == "Transcription timeout"

\* message.toLowerCase().includes(kw), for the messages of this model.
IncludesLower(msg, kw) ==
  CASE msg = "OrtRun failed"     -> kw \in {"ortrun"}
    [] msg = FbInferTimeoutMsg   -> kw \in {"timeout"}
    [] msg = LoadTimeoutMsg      -> kw \in {"timeout", "load"}
    [] msg = FetchFailedMsg      -> kw \in {"fetch"}
    [] OTHER                     -> FALSE

\* The inner catch: the message it shows, or NoShown when it rethrows.
FbClassifyInner(msg) ==
  IF IncludesLower(msg, "ortrun") \/ IncludesLower(msg, "error code = 6")
       \/ IncludesLower(msg, "session") \/ IncludesLower(msg, "backend")
  THEN Shown("OnnxDuringTranscription")
  ELSE IF IncludesLower(msg, "out of memory") \/ IncludesLower(msg, "oom")
            \/ IncludesLower(msg, "memory")
  THEN Shown("OutOfMemoryDuringTranscription")
  ELSE IF IncludesLower(msg, "webassembly") \/ IncludesLower(msg, "wasm")
  THEN Shown("WasmDuringTranscription")
  ELSE IF IncludesLower(msg, "timeout") THEN Shown("TimedOutDuringTranscription")
  ELSE IF IncludesLower(msg, "network") \/ IncludesLower(msg, "fetch")
            \/ IncludesLower(msg, "load")
  THEN Shown("NetworkDuringTranscription")
  ELSE NoShown

\* The main catch.
FbClassifyMain(msg) ==
  IF IncludesLower(msg, "timeout") THEN Shown("TimedOut")
  ELSE IF IncludesLower(msg, "ortrun") \/ IncludesLower(msg, "onnx")
            \/ IncludesLower(msg, "backend")
  THEN Shown("OnnxFailed")
  ELSE IF IncludesLower(msg, "memory") \/ IncludesLower(msg, "oom")
  THEN Shown("OutOfMemory")
  ELSE IF IncludesLower(msg, "network") \/ IncludesLower(msg, "fetch")
  THEN Shown("Network")
  ELSE IF IncludesLower(msg, "webassembly") \/ IncludesLower(msg, "wasm")
  THEN Shown("Wasm")
  ELSE [kind |-> "TranscriptionFailed", detail |-> msg]

FbInferenceThrew(msg) ==
  /\ Finish(IF FbClassifyInner(msg) # NoShown THEN FbClassifyInner(msg)
            ELSE FbClassifyMain(msg))
  /\ UNCHANGED << reqVarsKept, transcript, mgrVars, loadVars >>

\* The catch inside the loop: the last configuration rethrows, any other one
\* waits a second.
FbInferConfigFailed(msg) ==
  IF icfg = NumFbInferConfigs
  THEN FbInferenceThrew(msg)
  ELSE /\ pc' = "inferBackoff"
       /\ UNCHANGED << uiVars, loading, modelLoading, hookError, reqClip,
                       pipelineLocal, pending, fb, deviceVars, calls >>
       /\ UNCHANGED << mgrVars, loadVars, inferVars >>

\* key.includes('.en')
IsEnglishOnly(key) == key \in {"tiny.en", "base.en", "small.en"}

\* The language option of the inference call in flight: the first three
\* configurations and the retry compute it from transcription.selectedModel
\* of the render the request was started in, the head of the candidate list;
\* the last two configurations carry no language option.
FbLanguage ==
  IF (pc = "retry" \/ icfg <= 3) /\ IsEnglishOnly(fb.order[1])
  THEN "english" ELSE "undefined"

\* The engine call of the current configuration throws.
FbInferThrows(msg) ==
  /\ pc = "infer"
  /\ FbInferConfigFailed(msg)
  /\ icfg < NumFbInferConfigs => UNCHANGED abandoned

\* The configuration's own 60 s timer fires first.
FbInferTimeout ==
  /\ pc = "infer"
  /\ FbInferConfigFailed(FbInferTimeoutMsg)
  /\ icfg < NumFbInferConfigs => abandoned' = pipelineLocal

\* After the one-second wait the engine is called with the next
\* configuration, raced against a new timer.
FbNextInferConfig ==
  /\ pc = "inferBackoff"
  /\ icfg' = icfg + 1
  /\ calls' = [calls EXCEPT !.infers = @ + 1]
  /\ pc' = "infer"
  /\ UNCHANGED << uiVars, loading, modelLoading, hookError, reqClip,
                  pipelineLocal, pending, fb, sideVars, processedAudio, timedOut >>
  /\ UNCHANGED << mgrVars, loadVars >>

\* The engine call of the current configuration resolves with r.
FbInferReturns(r) ==
  /\ pc = "infer"
  /\ IF Falsy(r)
     THEN FbInferenceThrew(AllConfigsFailedMsg)
     ELSE IF ExtractThrows(r)
     THEN FbInferenceThrew(TypeErrorMsg)
     ELSE IF IsBlank(ExtractText(r))
     THEN /\ pc' = "retry"
          /\ calls' = [calls EXCEPT !.infers = @ + 1]
          /\ UNCHANGED << uiVars, loading, modelLoading, hookError, reqClip,
                          pipelineLocal, pending, fb, sideVars >>
          /\ UNCHANGED << mgrVars, loadVars, inferVars >>
     ELSE FinishWithText(ExtractText(r))

\* The retry call throws.
FbRetryThrows(msg) ==
  /\ pc = "retry"
  /\ FbInferenceThrew(msg)

\* The clips and the model keys chosen in this specification: a weak clip
\* at 44.1 kHz, a good one at 16 kHz, one that is too long, one that does
\* not decode; the key at the head of the preference order (which the
\* recommended-model effect may turn into "tiny") and a key outside it.
FbClipIds == {5, 7, 10, 11}
FbSelectableKeys == {"tiny.en", "small"}

\* What pipeline() and the smoke test throw in this specification.
FbLoadMessages == {"unexpected failure"}

NextFallback ==
  \/ \E c \in FbClipIds : SelectFile(c)
  \/ \E k \in FbSelectableKeys : SelectModel(k)
  \/ FbTranscribeClick
  \/ ConstructOk
  \/ \E m \in FbLoadMessages : ConstructThrows(m)
  \/ ConstructTimeout
  \/ LateConstructionCompletes
  \/ FbSmokeOk
  \/ \E m \in FbLoadMessages : SmokeThrows(m)
  \/ NextConfiguration
  \/ FbLoadFailed
  \/ FbNextCandidate
  \/ FetchFails
  \/ FetchOk
  \/ DecodeFails
  \/ DurationGateRejects
  \/ DecodedStartsResample
  \/ ResampleFails
  \/ AnalysisRejects
  \/ AnalysisStartsInference
  \/ \E r \in Results : FbInferReturns(r)
  \/ \E m \in EngineMessages : FbInferThrows(m)
  \/ FbInferTimeout
  \/ FbNextInferConfig
  \/ \E r \in Results : RetryReturns(r)
  \/ \E m \in EngineMessages : FbRetryThrows(m)
  \/ AbandonedInferSettles

SpecFallback == Init /\ [][NextFallback]_vars

\* --------------------------------------------------------- audioBufferToWav
\* The state of the transcribe request, of the manager and of the fallback
\* loop.
requestVars ==
  << audioURL, selectedModel, recommendedModel, loading, modelLoading, error,
     hookError, transcript, transcriber, currentModelRef, pc, reqClip,
     modelId, cfg, lastError, pipelineLocal, processedAudio, icfg, timedOut,
     pending, loads, smokePassed, attempts, lastInit, calls, fb, abandoned >>

\* Float32 sample values are multiples of 1/PcmUnit: 1.0 == PcmUnit.
PcmUnit == AmpUnit \div 2

\* The character codes writeString writes for the four tags.
TagCodes == [RIFF |-> << 82, 73, 70, 70 >>, WAVE |-> << 87, 65, 86, 69 >>,
             fmt |-> << 102, 109, 116, 32 >>, data |-> << 100, 97, 116, 97 >>]

\* setUint32(_, v, true) and setUint16(_, v, true): the n low bytes of v,
\* least significant first.
LittleEndian(v, n) == [i \in 1..n |-> (v \div (256 ^ (i - 1))) % 256]

\* A faulty DataLength: the number of samples, not of bytes.
DataLengthInSamples(length) == length

\* dataLength = length * bytesPerSample, bytesPerSample = bitDepth / 8
DataLength(length) == length * (16 \div 8)

\* The 44 bytes of the RIFF, "fmt " and "data" headers.
WavHeader(sampleRate, length) ==
  LET numChannels == 1
      format == 1
      bitDepth == 16
      blockAlign == numChannels * (bitDepth \div 8)
  IN  TagCodes.RIFF \o LittleEndian(36 + DataLength(length), 4)
      \o TagCodes.WAVE
      \o TagCodes.fmt \o LittleEndian(16, 4)
      \o LittleEndian(format, 2) \o LittleEndian(numChannels, 2)
      \o LittleEndian(sampleRate, 4)
      \o LittleEndian(sampleRate * blockAlign, 4)
      \o LittleEndian(blockAlign, 2) \o LittleEndian(bitDepth, 2)
      \o TagCodes.data \o LittleEndian(DataLength(length), 4)

\* Math.max(-1, Math.min(1, data[i]))
ClampSample(k) ==
  LET low == IF k < PcmUnit THEN k ELSE PcmUnit
  IN  IF low > -PcmUnit THEN low ELSE -PcmUnit

\* ToInt16 of the quotient n / PcmUnit: the fraction is dropped towards
\* zero and the integer is wrapped into 16 bits.
ToInt16(n) ==
  LET whole == IF n >= 0 THEN n \div PcmUnit ELSE -((-n) \div PcmUnit)
  IN  ((whole + 32768) % 65536) - 32768

\* A faulty IntSample: both signs are scaled by 0x7FFF.
IntSampleSymmetric(k) == ToInt16(ClampSample(k) * 32767)

\* intSample = sample < 0 ? sample * 0x8000 : sample * 0x7FFF, as setInt16
\* stores it.
IntSample(k) ==
  LET sample == ClampSample(k)
  IN  ToInt16(IF sample < 0 THEN sample * 32768 ELSE sample * 32767)

\* The PCM bytes: setInt16(offset, intSample, true) for every sample.
WavData(data) ==
  [i \in 1..(2 * Len(data)) |->
     LittleEndian(IntSample(data[(i + 1) \div 2]) % 65536, 2)[((i - 1) % 2) + 1]]

audioBufferToWav(buffer) ==
  WavHeader(buffer.sampleRate, Len(buffer.data)) \o WavData(buffer.data)

WavSampleRates == {8000, 16000, 44100, 48000}
WavSampleValues ==
  {-2 * PcmUnit, -PcmUnit, -(PcmUnit \div 2), -1, 0, 1, PcmUnit \div 2,
   PcmUnit, 2 * PcmUnit}
WavSampleData ==
  UNION {[1..n -> WavSampleValues] : n \in 0..MaxWavSamples}

\* The page holds a decoded (and resampled) mono buffer.
InitWav ==
  /\ InitRequest
  /\ recorder = NoRecorder
  /\ objectURLs = NoURLs
  /\ progress = NoProgress
  /\ wav \in {[sampleRate |-> r, data |-> d, out |-> <<>>, encoded |-> FALSE] :
               r \in WavSampleRates, d \in WavSampleData}

\* const wavBuffer = audioBufferToWav(...)
Encode ==
  /\ ~wav.encoded
  /\ wav' = [wav EXCEPT !.out = audioBufferToWav(wav), !.encoded = TRUE]
  /\ UNCHANGED << requestVars, recorder, objectURLs, progress >>

NextWav == Encode

SpecWav == InitWav /\ [][NextWav]_vars

\* --------------------------------------------------------------- progress
\* The progress value of initializeTranscriber. The position in the
\* configuration loop is kept in pc, cfg, modelLoading and loads, as in the
\* request; everything else of the page is left alone.
progressKept ==
  << audioURL, selectedModel, recommendedModel, loading, error, hookError,
     transcript, transcriber, currentModelRef, reqClip, modelId, lastError,
     pipelineLocal, processedAudio, icfg, timedOut, pending, smokePassed,
     attempts, lastInit, calls, fb, recorder, objectURLs, wav, abandoned >>

\* A faulty Climb: no cap.
ClimbUncapped(prev) == prev + 5

\* prev => Math.min(prev + 5, 80)
Climb(prev) == IF prev + 5 < 80 THEN prev + 5 ELSE 80

\* Math.min(Math.round((p.loaded / p.total) * 100), 90)
DownloadPercent(loaded, total) ==
  LET rounded == (200 * loaded + total) \div (2 * total)
  IN  IF rounded < 90 THEN rounded ELSE 90

\* The (loaded, total) pairs a 'downloading' report carries.
DownloadReports == {<< 1, 3 >>, << 2, 3 >>, << 3, 3 >>, << 4, 3 >>}

\* initializeTranscriber goes past its early return: setModelLoading(true),
\* setProgress(0), the interval is started and pipeline() is called with the
\* first configuration, the one that has a progress_callback.
PgStart ==
  /\ pc = "idle"
  /\ loads < MaxLoads
  /\ modelLoading' = TRUE
  /\ loads' = loads + 1
  /\ cfg' = 1
  /\ pc' = "constructing"
  /\ progress' = [progress EXCEPT !.value = 0, !.intervals = @ + 1,
                                  !.reporting = TRUE]
  /\ UNCHANGED progressKept

\* An interval started by a load fires.
PgTick ==
  /\ progress.intervals > 0
  /\ progress' = [progress EXCEPT !.value = Climb(@)]
  /\ UNCHANGED << progressKept, pc, cfg, modelLoading, loads >>

\* progress_callback with status 'downloading' and a total.
PgDownloading(loaded, total) ==
  /\ progress.reporting
  /\ progress' = [progress EXCEPT !.value = DownloadPercent(loaded, total)]
  /\ UNCHANGED << progressKept, pc, cfg, modelLoading, loads >>

\* progress_callback with status 'loaded'.
PgLoaded ==
  /\ progress.reporting
  /\ progress' = [progress EXCEPT !.value = 95]
  /\ UNCHANGED << progressKept, pc, cfg, modelLoading, loads >>

\* pipeline() of the current configuration resolves within the 120 s; the
\* smoke test is called. The first configuration's call reports no more.
PgConstructed ==
  /\ pc = "constructing"
  /\ pc' = "smoke"
  /\ progress' = [progress EXCEPT
                    !.reporting = IF cfg = 1 THEN FALSE ELSE @]
  /\ UNCHANGED << progressKept, cfg, modelLoading, loads >>

\* pipeline() or the smoke test of the current configuration throws: the
\* catch waits one second.
PgConfigThrows ==
  /\ pc \in {"constructing", "smoke"}
  /\ pc' = "backoff"
  /\ progress' = [progress EXCEPT
                    !.reporting = IF cfg = 1 THEN FALSE ELSE @]
  /\ UNCHANGED << progressKept, cfg, modelLoading, loads >>

\* The 120 s timer wins the race: the catch waits one second and the
\* pipeline() call goes on by itself, reporting if it is the first one.
PgConfigTimeout ==
  /\ pc = "constructing"
  /\ pc' = "backoff"
  /\ UNCHANGED << progressKept, progress, cfg, modelLoading, loads >>

\* A pipeline() call the loop gave up on comes to its end.
PgAbandonedEnds ==
  /\ progress.reporting
  /\ ~(pc = "constructing" /\ cfg = 1)
  /\ progress' = [progress EXCEPT !.reporting = FALSE]
  /\ UNCHANGED << progressKept, pc, cfg, modelLoading, loads >>

\* After the wait the loop calls pipeline() with the next configuration.
PgNextConfiguration ==
  /\ pc = "backoff"
  /\ cfg < NumLoadConfigs
  /\ cfg' = cfg + 1
  /\ pc' = "constructing"
  /\ UNCHANGED << progressKept, progress, modelLoading, loads >>

\* The smoke test returns: break; clearInterval(progressInterval);
\* setProgress(100); finally: setModelLoading(false) and the reset timer.
PgSmokeOk ==
  /\ pc = "smoke"
  /\ pc' = "idle"
  /\ cfg' = 0
  /\ modelLoading' = FALSE
  /\ progress' = [progress EXCEPT !.value = 100, !.intervals = @ - 1,
                                  !.resets = @ + 1]
  /\ UNCHANGED << progressKept, loads >>

\* After the last configuration failed: throw lastError; finally:
\* setModelLoading(false) and the reset timer. The interval is not cleared.
PgLoadFailed ==
  /\ pc = "backoff"
  /\ cfg >= NumLoadConfigs
  /\ pc' = "idle"
  /\ cfg' = 0
  /\ modelLoading' = FALSE
  /\ progress' = [progress EXCEPT !.resets = @ + 1]
  /\ UNCHANGED << progressKept, loads >>

\* setTimeout(() => setProgress(0), 500) fires.
PgReset ==
  /\ progress.resets > 0
  /\ progress' = [progress EXCEPT !.value = 0, !.resets = @ - 1]
  /\ UNCHANGED << progressKept, pc, cfg, modelLoading, loads >>

NextProgress ==
  \/ PgStart
  \/ PgTick
  \/ \E r \in DownloadReports : PgDownloading(r[1], r[2])
  \/ PgLoaded
  \/ PgConstructed
  \/ PgConfigThrows
  \/ PgConfigTimeout
  \/ PgAbandonedEnds
  \/ PgNextConfiguration
  \/ PgSmokeOk
  \/ PgLoadFailed
  \/ PgReset

\* A timer that has been set fires.
SpecProgress == Init /\ [][NextProgress]_vars /\ WF_vars(PgReset)

\* -------------------------------------------------------------- recording
\* What a recording leaves alone.
recordingKept ==
  << selectedModel, recommendedModel, loading, modelLoading, hookError,
     transcriber, currentModelRef, pc, reqClip, modelId, cfg, lastError,
     pipelineLocal, processedAudio, icfg, timedOut, pending, loads,
     smokePassed, attempts, lastInit, calls, fb, progress, wav, abandoned >>

\* The clip a recording resolves to once it is resampled and encoded.
RecordedClipIds == {7}

\* A state setter called with new: a component that is unmounted keeps old.
SetState(new, old) == IF recorder.mounted THEN new ELSE old

\* The session the next startRecording begins.
NextSession ==
  CHOOSE s \in RecSessions :
    /\ recorder.sessions[s].phase = "none"
    /\ \A t \in RecSessions : t < s => recorder.sessions[t].phase # "none"

\* Click on Record: startRecording clears the error and the transcript and
\* awaits getUserMedia. The button is disabled while isRecording or
\* modelLoading.
RecordClick ==
  /\ recorder.mounted
  /\ ~(recorder.isRecording \/ modelLoading)
  /\ \E s \in RecSessions : recorder.sessions[s].phase = "none"
  /\ recorder' = [recorder EXCEPT
                    !.sessions[NextSession] =
                       [NoSession EXCEPT !.phase = "starting",
                                         !.closure = objectURLs.current]]
  /\ error' = NoShown
  /\ transcript' = <<>>
  /\ UNCHANGED << audioURL, objectURLs, recordingKept >>

\* The catch of startRecording, entered from r: the message is shown and
\* isRecording is reset; nothing else is undone.
StartFailed(r, s, how) ==
  /\ recorder' = [r EXCEPT !.isRecording = SetState(FALSE, @),
                           !.sessions[s].phase = "ended",
                           !.sessions[s].how = how]
  /\ error' = SetState(Shown("MicrophoneUnavailable"), error)
  /\ UNCHANGED << audioURL, transcript, objectURLs, recordingKept >>

\* getUserMedia rejects.
StreamDenied(s) ==
  /\ recorder.sessions[s].phase = "starting"
  /\ StartFailed(recorder, s, "denied")

\* getUserMedia resolves and startAudioLevelMonitoring throws before its
\* loop runs: the stream is live and no recorder is made.
MeterThrows(s) ==
  /\ recorder.sessions[s].phase = "starting"
  /\ StartFailed([recorder EXCEPT !.sessions[s].tracks = TRUE], s,
                 "meterFailed")

\* getUserMedia resolves, the meter loop runs and new MediaRecorder throws.
RecorderThrows(s) ==
  /\ recorder.sessions[s].phase = "starting"
  /\ StartFailed([recorder EXCEPT !.sessions[s].tracks = TRUE,
                                  !.meters = @ \cup {s}, !.frame = s], s,
                 "recorderFailed")

\* getUserMedia resolves: the meter loop runs, the recorder is made, put in
\* mediaRecorderRef and started, audioChunks.current is emptied and
\* isRecording is set.
StartOk(s) ==
  /\ recorder.sessions[s].phase = "starting"
  /\ recorder' = [recorder EXCEPT !.sessions[s].tracks = TRUE,
                                  !.sessions[s].phase = "active",
                                  !.meters = @ \cup {s}, !.frame = s,
                                  !.ref = s,
                                  !.chunks = <<>>,
                                  !.isRecording = SetState(TRUE, @)]
  /\ UNCHANGED << audioURL, error, transcript, objectURLs, recordingKept >>

\* A frame of the meter loop of session s: animationFrameRef holds the frame
\* it requests.
MeterFrame(s) ==
  /\ s \in recorder.meters
  /\ recorder.frame # s
  /\ recorder' = [recorder EXCEPT !.frame = s]
  /\ UNCHANGED << audioURL, error, transcript, objectURLs, recordingKept >>

\* ondataavailable of the recorder of session s, with size bytes of data: a
\* chunk that is not empty is pushed on audioChunks.current.
DataAvailable(s, size) ==
  /\ recorder.sessions[s].phase = "active"
  /\ recorder.sessions[s].got < MaxChunks
  /\ recorder' =
       IF size > 0
       THEN [recorder EXCEPT !.sessions[s].got = @ + 1,
                             !.sessions[s].sent = @ + 1,
                             !.chunks = Append(@, s)]
       ELSE [recorder EXCEPT !.sessions[s].got = @ + 1]
  /\ UNCHANGED << audioURL, error, transcript, objectURLs, recordingKept >>

\* Click on Stop, enabled while isRecording: stopRecording calls stop() on
\* the recorder in mediaRecorderRef; a recorder that was recording becomes
\* inactive and its onstop runs.
StopClick ==
  /\ recorder.mounted
  /\ recorder.isRecording
  /\ recorder.ref # 0
  /\ recorder' =
       Stopped([recorder EXCEPT
                  !.sessions[recorder.ref].stops = IF @ < 2 THEN @ + 1 ELSE @],
               recorder.ref)
  /\ UNCHANGED << audioURL, error, transcript, objectURLs, recordingKept >>

\* The recorder of session s fails: onerror shows the message, resets
\* isRecording and cleans up; the recorder is inactive and its onstop runs.
RecorderError(s) ==
  /\ recorder.sessions[s].phase = "active"
  /\ recorder' =
       Stopped(CleanupRecording([recorder EXCEPT
                                   !.isRecording = SetState(FALSE, @)]), s)
  /\ error' = SetState(Shown("RecordingError"), error)
  /\ UNCHANGED << audioURL, transcript, objectURLs, recordingKept >>

\* onstop of session s fails to decode or resample: the catch shows the
\* message, resets isRecording and cleans up.
ProcessFails(s) ==
  /\ recorder.sessions[s].phase = "processing"
  /\ recorder' =
       [CleanupRecording([recorder EXCEPT !.isRecording = SetState(FALSE, @)])
          EXCEPT !.sessions[s].phase = "ended",
                 !.sessions[s].how = "processFailed"]
  /\ error' = SetState(Shown("ProcessingFailed"), error)
  /\ UNCHANGED << audioURL, transcript, objectURLs, recordingKept >>

\* onstop of session s has the WAV blob: the audioURL it closed over is
\* revoked, the new URL becomes audioURL, isRecording is reset and the
\* recorder is cleaned up; then the cleanup of the audioURL effect runs.
ProcessOk(s, c) ==
  /\ recorder.sessions[s].phase = "processing"
  /\ recorder' =
       [CleanupRecording([recorder EXCEPT !.isRecording = SetState(FALSE, @)])
          EXCEPT !.sessions[s].phase = "ended",
                 !.sessions[s].how = "stopped"]
  /\ objectURLs' =
       LET left == LiveAfterReplace(recorder.sessions[s].closure)
       IN  [current |-> SetState(FreshURL(left), objectURLs.current),
            live |-> left \cup {FreshURL(left)}]
  /\ audioURL' = SetState(c, audioURL)
  /\ UNCHANGED << error, transcript, recordingKept >>

\* Click on Clear All, offered while there is an audioURL: the URL is
\* revoked, the page is reset and the recorder is cleaned up.
ClearAll ==
  /\ recorder.mounted
  /\ audioURL # NoClip
  /\ objectURLs' = [current |-> 0,
                    live |-> LiveAfterReplace(objectURLs.current)]
  /\ audioURL' = NoClip
  /\ transcript' = <<>>
  /\ error' = NoShown
  /\ recorder' = CleanupRecording(recorder)
  /\ UNCHANGED recordingKept

\* The component is unmounted: the cleanup of the audioURL effect cleans up
\* the recorder and revokes audioURL.
Unmount ==
  /\ recorder.mounted
  /\ recorder' = [CleanupRecording(recorder) EXCEPT !.mounted = FALSE]
  /\ objectURLs' = [objectURLs EXCEPT !.live = @ \ {objectURLs.current}]
  /\ UNCHANGED << audioURL, error, transcript, recordingKept >>

NextRecording ==
  \/ RecordClick
  \/ \E s \in RecSessions : StreamDenied(s)
  \/ \E s \in RecSessions : MeterThrows(s)
  \/ \E s \in RecSessions : RecorderThrows(s)
  \/ \E s \in RecSessions : StartOk(s)
  \/ \E s \in RecSessions : MeterFrame(s)
  \/ StopClick
  \/ \E s \in RecSessions : RecorderError(s)
  \/ \E s \in RecSessions : ProcessFails(s)
  \/ \E s \in RecSessions, c \in RecordedClipIds : ProcessOk(s, c)
  \/ ClearAll
  \/ Unmount
  \/ \E c \in RecordedClipIds : SelectFile(c)

SpecRecording == Init /\ [][NextRecording]_vars

\* Recording next to a transcribe request: the recorder and the decoder do
\* not fail, the model loads with its first configuration and the request
\* ends at the fetch of a URL that has been revoked meanwhile.
NextRecordingRequest ==
  \/ RecordClick
  \/ \E s \in RecSessions : StartOk(s)
  \/ StopClick
  \/ \E s \in RecSessions, c \in RecordedClipIds : ProcessOk(s, c)
  \/ \E c \in RecordedClipIds : SelectFile(c)
  \/ TranscribeClickLoad
  \/ TranscribeClickLoaded
  \/ ConstructOk
  \/ SmokeOk
  \/ FetchFails

SpecRecordingRequest == Init /\ [][NextRecordingRequest]_vars

\* The recorder with the chunks its recorders deliver, of no bytes or of
\* one: nothing fails.
NextChunks ==
  \/ RecordClick
  \/ \E s \in RecSessions : StartOk(s)
  \/ \E s \in RecSessions, size \in {0, 1} : DataAvailable(s, size)
  \/ StopClick
  \/ \E s \in RecSessions, c \in RecordedClipIds : ProcessOk(s, c)

SpecChunks == Init /\ [][NextChunks]_vars

\* ----------------------------------------------------------------- timeouts
\* The request of src/App.tsx for one clip, with the timers and the awaits
\* of the page taken as fair: a timer that has been set fires, a caught
\* failure is followed by the next configuration, fetch answers.  Nothing
\* is assumed of the engine: pipeline(), the smoke test, an inference call
\* and the retry call may never settle.
NextTimeouts ==
  \/ \E c \in MidRequestClipIds : SelectFile(c)
  \/ TranscribeClickLoaded
  \/ TranscribeClickLoad
  \/ ConstructOk
  \/ \E m \in EngineMessages : ConstructThrows(m)
  \/ ConstructTimeout
  \/ LateConstructionCompletes
  \/ SmokeOk
  \/ \E m \in EngineMessages : SmokeThrows(m)
  \/ NextConfiguration
  \/ LoadFailed
  \/ FetchFails
  \/ FetchOk
  \/ AnalysisStartsInference
  \/ \E r \in Results : InferReturns(r)
  \/ \E m \in EngineMessages : InferThrows(m)
  \/ InferTimeout
  \/ InferRaceLost
  \/ \E r \in Results : RetryReturns(r)
  \/ \E m \in EngineMessages : RetryThrows(m)
  \/ AbandonedInferSettles

SpecTimeouts ==
  /\ Init
  /\ [][NextTimeouts]_vars
  /\ WF_vars(ConstructTimeout)
  /\ WF_vars(InferTimeout)
  /\ WF_vars(InferRaceLost)
  /\ WF_vars(NextConfiguration)
  /\ WF_vars(LoadFailed)
  /\ WF_vars(FetchOk \/ FetchFails)
  /\ WF_vars(AnalysisStartsInference)

\* ------------------------------------------------------------------ claims
\* The clip the running request closed over, as decoded, and its duration
\* compared with 0.1 s and 30 s.
ReqTooShort == Clips[reqClip].len * 10 < Clips[reqClip].rate
ReqTooLong == Clips[reqClip].len > 30 * Clips[reqClip].rate

ReqViolatesGate ==
  reqClip # NoClip /\ Clips[reqClip].ok /\ (ReqTooShort \/ ReqTooLong)

ReqGateError == IF ReqTooLong THEN Shown("TooLong") ELSE Shown("TooShort")

\* The peak of the request's mono 16 kHz samples, before normalisation.
ReqPeak == MaxAbs(AudioData(Clips[reqClip]).wave)

\* peak < 0.0001
ReqWeak == reqClip # NoClip /\ Clips[reqClip].ok /\ ReqPeak * 10000 < 65536

\* C1, as amended: a request whose clip violates the duration gate (shorter
\* than 0.1 s or longer than 30 s) never makes an inference call on the clip,
\* never renders or analyses it, and once the clip is decoded the request ends
\* with the matching duration error.  The model load, with its smoke test,
\* comes before the gate and may have run.
C1_GateViolatingClipIsNeverInferred ==
  [][ ReqViolatesGate =>
        /\ calls.infers = 0
        /\ calls'.infers = 0
        /\ pc' \notin {"resample", "infer", "retry"}
        /\ (pc = "decode" /\ pc' # "decode") =>
              (pc' = "idle" /\ error' = ReqGateError /\ transcript' = <<>>)
    ]_vars

\* C1 as first stated: a request whose clip violates the duration gate ends
\* with the duration error and never touches the engine: no model load
\* started, no smoke test, no inference call.
C1_EngineNeverTouched ==
  [][ /\ ReqViolatesGate' =>
           (calls'.constructs = 0 /\ ~calls'.smoked /\ calls'.infers = 0)
      /\ (ReqViolatesGate /\ pc # "idle" /\ pc' = "idle") =>
           error' = ReqGateError
    ]_vars

\* A request that loaded the model and ran its smoke test has ended with a
\* duration error and no inference call.
C1_Witness ==
  /\ pc = "idle"
  /\ calls.done
  /\ calls.constructs = 1
  /\ calls.smoked
  /\ calls.infers = 0
  /\ error.kind \in {"TooShort", "TooLong"}

\* C2: the decoded clip is rejected as too short exactly when its duration is
\* below 0.1 s and as too long exactly when it is above 30 s; clips of exactly
\* 0.1 s and exactly 30 s pass the duration gate.
C2_DurationGateBoundaries ==
  [][ (pc = "decode" /\ pc' # "decode" /\ Clips[reqClip].ok) =>
        /\ (pc' = "idle" /\ error' = Shown("TooShort")) <=> ReqTooShort
        /\ (pc' = "idle" /\ error' = Shown("TooLong")) <=> ReqTooLong
    ]_vars

\* A clip of exactly 0.1 s has reached the engine.
C2_Witness ==
  /\ pc = "infer"
  /\ Clips[reqClip].len * 10 = Clips[reqClip].rate

\* C3, as amended: a decoded clip whose peak is below 0.0001 is rejected as
\* too weak when its duration lies within [0.1 s, 30 s] (a resampling render
\* that fails aside), and with the duration error when it does not; in both
\* cases no inference call is made.
C3_WeakClipRejectedAfterDurationGate ==
  [][ (ReqWeak /\ pc \in {"decode", "resample"} /\ pc' # pc) =>
        /\ calls'.infers = 0
        /\ IF ~ReqTooShort /\ ~ReqTooLong
           THEN \/ pc = "decode" /\ pc' = "resample"
                \/ pc' = "idle" /\ error' = Shown("TooWeak")
                \/ /\ pc = "resample"
                   /\ pc' = "idle"
                   /\ error' = ClassifyMain(ResampleFailedMsg)
           ELSE pc' = "idle" /\ error' = ReqGateError
    ]_vars

\* C3 as first stated: a decoded clip whose peak is below 0.0001 is rejected
\* as too weak whatever its duration.
C3_WeakClipAlwaysRejectedAsWeak ==
  [][ (ReqWeak /\ pc = "decode" /\ pc' = "idle") => error' = Shown("TooWeak")
    ]_vars

\* A request for a weak clip has ended with the too-weak error.
C3_Witness ==
  /\ pc = "idle"
  /\ calls.done
  /\ calls.infers = 0
  /\ error = Shown("TooWeak")
  /\ audioURL # NoClip
  /\ MaxAbs(Clips[audioURL].wave) * 10000 < 65536

\* C4: the samples handed to the engine come from a clip whose peak p is at
\* least 0.0001; when p < 0.1 every sample is the original one scaled by
\* 0.5 / p (to the nearest sample value), so that the peak is 0.5; when
\* p >= 0.1 the samples are the original ones.
C4_QuietAudioIsNormalizedToHalf ==
  pc \in {"infer", "retry"} =>
    LET d == AudioData(Clips[reqClip])
        p == ReqPeak
        q == processedAudio
    IN  /\ p * 10000 >= 65536
        /\ q.len = d.len
        /\ Len(q.wave) = Len(d.wave)
        /\ IF p * 10 < 65536
           THEN /\ 2 * MaxAbs(q.wave) = 65536
                /\ \A i \in 1 .. Len(d.wave) :
                     Abs(2 * p * q.wave[i] - 65536 * d.wave[i]) <= p
           ELSE q = d

\* The engine is called with samples that were scaled up to a peak of 0.5.
C4_Witness ==
  /\ pc = "infer"
  /\ ReqPeak * 10 < 65536
  /\ 2 * MaxAbs(processedAudio.wave) = 65536
  /\ processedAudio # AudioData(Clips[reqClip])

\* C5, as amended: a call of initializeTranscriber for the key of the previous
\* call, when that call returned a handle, starts no load: no pipeline() call,
\* no smoke test, no modelLoading, and the handle returned is the same one.
\* When the previous call threw, the call starts a load.
C5_SameKeyReturnsHeldHandle ==
  [][ ( /\ pc = "idle"
        /\ pc' # "idle"
        /\ lastInit.status = "returned"
        /\ lastInit.id = ModelId(selectedModel) ) =>
        /\ pc' = "fetch"
        /\ pipelineLocal' = lastInit.handle
        /\ transcriber' = lastInit.handle
        /\ lastInit'.handle = lastInit.handle
        /\ loads' = loads
        /\ attempts' = attempts
        /\ ~modelLoading'
        /\ calls'.constructs = 0
        /\ ~calls'.smoked
    ]_vars
  /\
  [][ ( /\ pc = "idle"
        /\ pc' # "idle"
        /\ lastInit.status = "threw"
        /\ lastInit.id = ModelId(selectedModel) ) =>
        (pc' = "constructing" /\ loads' = loads + 1 /\ modelLoading')
    ]_vars

\* C5 as first stated: a call of initializeTranscriber for the key of the
\* previous call never starts a load, whatever the previous call ended with.
C5_SameKeyNeverLoadsAgain ==
  [][ ( /\ pc = "idle"
        /\ pc' # "idle"
        /\ lastInit.status \in {"returned", "threw"}
        /\ lastInit.id = ModelId(selectedModel) ) =>
        (loads' = loads /\ ~modelLoading' /\ calls'.constructs = 0)
    ]_vars

\* A second request in a row got the held handle without any load.
C5_Witness ==
  /\ pc = "fetch"
  /\ calls = NoCalls
  /\ lastInit.status = "returned"
  /\ pipelineLocal = transcriber
  /\ transcriber # NoEngine
  /\ loads = 1

\* C6, as amended: no handle is held whenever a load attempt starts, so the
\* old handle of a switch is dropped before the first attempt; while the
\* switch runs the manager holds nothing or an instance of the new model; when
\* the switch has returned it holds exactly the new instance, bound to the new
\* id, and when it has thrown it holds nothing.
C6_SwitchHoldsOnlyTheNewHandle ==
  [][ /\ pc' = "constructing" => transcriber' = NoEngine
      /\ (lastInit'.status = "running" /\ lastInit'.switched) =>
           /\ lastInit'.old # NoEngine
           /\ lastInit'.old.model # lastInit'.id
           /\ transcriber' # lastInit'.old
           /\ currentModelRef' = ""
           /\ transcriber' # NoEngine => transcriber'.model = lastInit'.id
      /\ ( /\ lastInit.status = "running"
           /\ lastInit.switched
           /\ lastInit'.status = "returned" ) =>
           /\ transcriber' # NoEngine
           /\ transcriber' # lastInit.old
           /\ transcriber'.model = lastInit.id
           /\ currentModelRef' = lastInit.id
           /\ lastInit'.handle = transcriber'
      /\ ( /\ lastInit.status = "running"
           /\ lastInit.switched
           /\ lastInit'.status = "threw" ) =>
           (transcriber' = NoEngine /\ currentModelRef' = "")
    ]_vars

\* C6 as first stated: after any switch from a loaded model to another key
\* has finished, the manager holds exactly one handle, the one of the new key.
C6_SwitchAlwaysEndsWithNewHandle ==
  [][ ( /\ lastInit.status = "running"
        /\ lastInit.switched
        /\ lastInit'.status # "running" ) =>
        (transcriber' # NoEngine /\ transcriber'.model = lastInit.id)
    ]_vars

\* A switch from a loaded model to another key has returned.
C6_Witness ==
  /\ lastInit.status = "returned"
  /\ lastInit.switched
  /\ transcriber = lastInit.handle
  /\ transcriber.model = lastInit.id
  /\ transcriber.load = 2

\* C7: initializeTranscriber throws only after all six configurations have
\* failed, and then with the error of the sixth; after that the manager holds
\* no handle and no bound id and modelLoading is false, and the next request
\* for the same key starts a load with the first configuration.
C7_ExhaustedLoadLeavesManagerUnloaded ==
  [][ /\ (lastInit.status = "running" /\ lastInit'.status = "threw") =>
           /\ Len(attempts) = 6
           /\ \A i \in 1 .. 6 : attempts[i] = [cfg |-> i, result |-> "failed"]
           /\ lastError.cfg = 6
           /\ hookError' = lastError
           /\ error' = ClassifyMain(lastError.msg)
           /\ pc' = "idle"
           /\ ~loading'
      /\ lastInit'.status = "threw" =>
           (transcriber' = NoEngine /\ currentModelRef' = "" /\ ~modelLoading')
      /\ ( /\ lastInit.status = "threw"
           /\ lastInit.id = ModelId(selectedModel)
           /\ pc = "idle"
           /\ pc' # "idle" ) =>
           /\ pc' = "constructing"
           /\ cfg' = 1
           /\ attempts' = << [cfg |-> 1, result |-> "pending"] >>
           /\ modelLoading'
           /\ loads' = loads + 1
    ]_vars

\* After a load that failed on all configurations, a request for the same
\* key is trying the first configuration again.
C7_Witness ==
  /\ pc = "constructing"
  /\ lastInit.retry
  /\ cfg = 1
  /\ hookError.cfg = 6
  /\ transcriber = NoEngine

\* C8: the configurations tried in a load are 1, 2, 3, ... in list order, each
\* one but the last has failed before the next was started, and an accepted
\* configuration is the last one tried.
C8_ConfigurationsInListOrder ==
  /\ Len(attempts) <= 6
  /\ \A i \in 1 .. Len(attempts) :
       /\ attempts[i].cfg = i
       /\ i < Len(attempts) => attempts[i].result = "failed"
  /\ pc \in {"constructing", "smoke"} =>
       (cfg = Len(attempts) /\ attempts[cfg].result = "pending")
  /\ pc = "backoff" =>
       (cfg = Len(attempts) /\ attempts[cfg].result = "failed")

\* A load was accepted on its third configuration or a later one.
C8_Witness ==
  /\ Len(attempts) >= 3
  /\ attempts[Len(attempts)].result = "accepted"

\* C9: whenever a model id is bound (the model counts as loaded) the held
\* handle is an instance whose smoke test returned, built for that id, and so
\* is every handle initializeTranscriber returns; an instance whose smoke test
\* threw is dropped and its configuration counts as failed.
C9_LoadedMeansSmokeTested ==
  [][ /\ currentModelRef' # "" =>
           (transcriber' \in smokePassed' /\ transcriber'.model = currentModelRef')
      /\ pipelineLocal' # NoEngine => pipelineLocal' \in smokePassed'
      /\ lastInit'.status = "returned" =>
           (lastInit'.handle # NoEngine /\ lastInit'.handle \in smokePassed')
      /\ (pc = "smoke" /\ pc' = "backoff") =>
           /\ transcriber' = NoEngine
           /\ transcriber \notin smokePassed'
           /\ currentModelRef' = ""
           /\ attempts'[Len(attempts')].result = "failed"
    ]_vars

\* A model is loaded through a fallback configuration.
C9_Witness ==
  /\ currentModelRef # ""
  /\ transcriber \in smokePassed
  /\ transcriber.cfg > 1
  /\ calls.smoked

\* C10: when the 120 s timer fires first the configuration has failed with the
\* timeout error and no handle is held; the loop then goes on with the next
\* configuration; the instance the abandoned pipeline() call yields later
\* changes nothing and is never held or handed out.
C10_LateEngineNeverInstalled ==
  [][ /\ ~transcriber'.late
      /\ ~pipelineLocal'.late
      /\ pending' > pending =>
           /\ pc = "constructing"
           /\ pc' = "backoff"
           /\ transcriber' = NoEngine
           /\ lastError' = [msg |-> "Model loading timeout", cfg |-> cfg]
           /\ attempts'[cfg].result = "failed"
      /\ ( /\ pc = "backoff"
           /\ lastError.msg = "Model loading timeout"
           /\ cfg < 6
           /\ pc' # pc ) =>
           (pc' = "constructing" /\ cfg' = cfg + 1)
      /\ pending' < pending =>
           UNCHANGED << transcriber, currentModelRef, pipelineLocal, pc, cfg,
                        attempts, modelLoading, lastError, lastInit >>
    ]_vars

\* A configuration timed out, its construction has completed since, and the
\* loop is about to take the next configuration with no handle held.
C10_Witness ==
  /\ pc = "backoff"
  /\ lastError.msg = "Model loading timeout"
  /\ pending = 0
  /\ transcriber = NoEngine

\* C14: in the transcription loop the first configuration whose call returns
\* ends the loop whatever it returned: the value is post-processed, a blank
\* text goes on to the retry and any other text becomes the transcript; a
\* returned value is never treated as a failure.
C14_ReturnedValueIsNeverAFailure ==
  [][ (pc = "infer" /\ pc' # "infer") =>
        \A r \in Results :
          InferReturns(r) =>
            /\ icfg' \in {icfg, 0}
            /\ IF IsBlank(ExtractText(r))
               THEN pc' = "retry"
               ELSE pc' = "idle" /\ transcript' = CleanText(ExtractText(r))
    ]_vars

\* C15: a configuration that is being awaited races a timer of its own that
\* has not fired: a timeout during an earlier configuration does not count
\* against it.
C15_EachConfigurationHasItsOwnWindow == pc = "infer" => ~timedOut

\* C20: a request whose inference attempts end because the 60 s timer fired
\* shows the timed-out message.
C20_TimeoutShowsTimedOut ==
  [][ ((InferTimeout \/ InferRaceLost) /\ pc' = "idle") =>
        error' = Shown("TimedOut")
    ]_vars

\* C16: when every transcription configuration throws, the request ends with
\* the error of the last configuration, classified by the inner catch and,
\* when that one rethrows, by the main catch; an earlier configuration's
\* error is not the one shown.
C16_LastConfigurationErrorIsShown ==
  [][ (pc = "infer" /\ icfg = NumInferConfigs /\ pc' = "idle"
         /\ calls'.thrown # <<>>) =>
        LET last == calls'.thrown[2]
        IN  error' = IF ClassifyInner(last) # NoShown THEN ClassifyInner(last)
                     ELSE ClassifyMain(last)
    ]_vars

\* All four configurations threw, the first one an ONNX Runtime error and
\* the last one an error of no category: the generic message carrying the
\* last error is shown.
C16_Witness ==
  /\ pc = "idle"
  /\ calls.done
  /\ calls.thrown = << "OrtRun failed", "unexpected failure" >>
  /\ error = [kind |-> "TranscriptionFailed", detail |-> "unexpected failure"]
  /\ ~loading

\* C17: post-processing the value a configuration's call returned never
\* fails: no error is shown in the step that post-processes it, and a text
\* that is not blank (the string itself, the text field, the chunk texts or
\* the array elements joined by single spaces) becomes the transcript.
C17_NormalisationIsTotal ==
  [][ (pc = "infer" /\ pc' # "infer") =>
        \A r \in Results :
          InferReturns(r) =>
            /\ error' = NoShown
            /\ ~IsBlank(ExtractText(r)) =>
                 transcript' = CleanText(ExtractText(r))
    ]_vars

ThrowEndsRequest(m) ==
  \/ m = "Failed to fetch audio" /\ FetchFails
  \/ m = "Unable to decode audio data" /\ DecodeFails
  \/ m = "Rendering failed" /\ ResampleFails
  \/ pc = "backoff" /\ m = lastError.msg /\ LoadFailed
  \/ /\ pc = "infer"
     /\ icfg = NumInferConfigs
     /\ \/ m \in EngineMessages /\ InferThrows(m)
        \/ m = "Transcription timed out after 60s." /\ (InferTimeout \/ InferRaceLost)
  \/ pc = "retry" /\ m \in EngineMessages /\ RetryThrows(m)

\* The messages thrown in this model that hold no keyword of either catch.
NoCategoryMatches ==
  { "unexpected failure", "Unable to decode audio data", "Rendering failed",
    "Transcription timed out after 60s." }

ThrownMessages ==
  EngineMessages \cup NoCategoryMatches
    \cup {"Failed to fetch audio", "Model loading timeout"}

C11_SelectedModelIsTheLoadedCandidate ==
  [][ ( /\ pc # "idle"
        /\ pc' = "idle"
        /\ fb'.successful # ""
        /\ fb'.successful # fb'.order[1] ) =>
        selectedModel' = fb'.successful
    ]_vars

\* C12: when the load of the last candidate fails, every candidate having
\* failed, the request ends with the no-model message carrying the error the
\* last candidate's load threw; loading is false, nothing was fetched,
\* decoded or analysed and no inference call was made; a failed load of an
\* earlier candidate leads to the next candidate.
C12_AllCandidatesFailed ==
  [][ /\ (pc = "backoff" /\ pc' = "idle") =>
           /\ fb.i = Len(fb.order)
           /\ fb'.successful = ""
           /\ error' = [kind |-> "NoModelAvailable", detail |-> lastError.msg]
           /\ hookError' = lastError
           /\ ~loading'
           /\ ~modelLoading'
           /\ transcript' = <<>>
           /\ processedAudio' = NoAudio
           /\ calls'.infers = 0
      /\ (pc = "backoff" /\ pc' = "modelBackoff") => fb.i < Len(fb.order)
      /\ fb'.successful = "" =>
           /\ pc' \in {"idle", "constructing", "smoke", "backoff",
                       "modelBackoff"}
           /\ calls'.infers = 0
      /\ error'.kind = "NoModelAvailable" =>
           (fb'.i = Len(fb'.order) /\ error'.detail = fb'.lastModelError)
    ]_vars

\* All five candidates failed to load and the request has ended with the
\* no-model message.
C12_Witness ==
  /\ pc = "idle"
  /\ calls.done
  /\ fb.i = 5
  /\ fb.successful = ""
  /\ error = [kind |-> "NoModelAvailable", detail |-> "unexpected failure"]
  /\ calls.infers = 0
  /\ ~loading

\* The candidate list the claim asks for, for each catalog key.
ExpectedOrder(k) ==
  CASE k = "tiny.en"  -> << "tiny.en", "tiny", "base.en", "base" >>
    [] k = "tiny"     -> << "tiny", "tiny.en", "base.en", "base" >>
    [] k = "base.en"  -> << "base.en", "tiny.en", "tiny", "base" >>
    [] k = "base"     -> << "base", "tiny.en", "tiny", "base.en" >>
    [] k = "small"    -> << "small", "tiny.en", "tiny", "base.en", "base" >>
    [] k = "small.en" -> << "small.en", "tiny.en", "tiny", "base.en", "base" >>

\* C13, as amended: for every catalog key the candidate list starts with the
\* selected key, goes on with those of tiny.en, tiny, base.en, base that are
\* not the selected key, in that order, and holds no key twice; the list a
\* request walks is the list of the model selected at the click.
C13_CandidateList ==
  /\ \A k \in ModelKeys :
       LET o == modelFallbackOrder(k)
       IN  /\ o = ExpectedOrder(k)
           /\ o[1] = k
           /\ \A i, j \in 1 .. Len(o) : o[i] = o[j] => i = j
           /\ \A i \in 1 .. Len(o) : o[i] \in ModelKeys
  /\ fb.order # <<>> =>
       /\ fb.order = ExpectedOrder(fb.order[1])
       /\ fb.i \in 1 .. Len(fb.order)
       /\ fb.successful # "" => fb.successful = fb.order[fb.i]

\* C13 as first stated: the selected key is followed by the other catalog
\* keys, so that every catalog key is a candidate.
C13_EveryCatalogKeyIsACandidate ==
  fb.order # <<>> => {fb.order[i] : i \in 1 .. Len(fb.order)} = ModelKeys

\* A request made with "small" selected has reached its last candidate.
C13_Witness ==
  /\ fb.order = << "small", "tiny.en", "tiny", "base.en", "base" >>
  /\ fb.i = 5


\* C29: for a mono buffer of n samples at rate r, audioBufferToWav returns
\* exactly 44 + 2n bytes; the header reads 'RIFF', 36 + 2n, 'WAVE', 'fmt ',
\* 16, format 1, 1 channel, r, byte rate 2r, block align 2, 16 bits, 'data',
\* 2n; for n = 0 the output is the 44-byte header alone.
C29_WavHeader ==
  wav.encoded =>
    LET o == wav.out
        n == Len(wav.data)
        r == wav.sampleRate
        U16(at) == o[at + 1] + 256 * o[at + 2]
        U32(at) == o[at + 1] + 256 * o[at + 2] + 65536 * o[at + 3]
                   + 16777216 * o[at + 4]
    IN  /\ Len(o) = 44 + 2 * n
        /\ \A i \in 1..Len(o) : o[i] \in 0..255
        /\ SubSeq(o, 1, 4) = << 82, 73, 70, 70 >>
        /\ U32(4) = 36 + 2 * n
        /\ SubSeq(o, 9, 12) = << 87, 65, 86, 69 >>
        /\ SubSeq(o, 13, 16) = << 102, 109, 116, 32 >>
        /\ U32(16) = 16
        /\ U16(20) = 1
        /\ U16(22) = 1
        /\ U32(24) = r
        /\ U32(28) = 2 * r
        /\ U16(32) = 2
        /\ U16(34) = 16
        /\ SubSeq(o, 37, 40) = << 100, 97, 116, 97 >>
        /\ U32(40) = 2 * n
        /\ n = 0 => Len(o) = 44

\* A buffer of two samples has been encoded at 44100 Hz.
C29_Witness ==
  /\ wav.encoded
  /\ wav.sampleRate = 44100
  /\ Len(wav.data) = 2
  /\ Len(wav.out) = 48

\* C30: every sample s is stored as a signed 16-bit value: s clamped to
\* [-1, 1], then s*32767 (s >= 0) or s*32768 (s < 0) with the fraction
\* dropped; 0 -> 0, 0.5 -> 16383, -0.5 -> -16384, 1 -> 32767, -1 -> -32768,
\* and every stored value lies in -32768..32767.
C30_SampleConversion ==
  wav.encoded =>
    \A i \in 1..Len(wav.data) :
      LET lo == wav.out[44 + 2 * i - 1]
          hi == wav.out[44 + 2 * i]
          v == IF hi >= 128 THEN lo + 256 * hi - 65536 ELSE lo + 256 * hi
          k == wav.data[i]
          s == IF k > 32768 THEN 32768 ELSE IF k < -32768 THEN -32768 ELSE k
      IN  /\ v \in -32768..32767
          /\ s >= 0 => v * 32768 <= s * 32767 /\ s * 32767 < (v + 1) * 32768
          /\ s < 0 => (v - 1) * 32768 < s * 32768 /\ s * 32768 <= v * 32768
          /\ k = 0 => v = 0
          /\ k = 16384 => v = 16383
          /\ k = -16384 => v = -16384
          /\ k >= 32768 => v = 32767
          /\ k =< -32768 => v = -32768

\* 0.5 and a sample below -1 have been encoded.
C30_Witness ==
  /\ wav.encoded
  /\ wav.data = << 16384, -65536 >>
  /\ wav.out[45] = 255 /\ wav.out[46] = 63
  /\ wav.out[47] = 0 /\ wav.out[48] = 128


\* C28: during a model load the progress value stays within 0..100 and
\* below 100 until a configuration has been accepted; on acceptance it
\* becomes 100, and after the grace delay it is reset to 0.
C28_Progress ==
  /\ [](progress.value \in 0..100 /\ (modelLoading => progress.value < 100))
  /\ [][PgSmokeOk => progress'.value = 100]_vars
  /\ (progress.value = 100) ~> (progress.value = 0)

\* A load has been accepted after an earlier load failed and left its
\* interval running; the reset is due.
C28_Witness ==
  /\ progress.value = 100
  /\ ~modelLoading
  /\ loads = 2
  /\ progress.intervals = 1
  /\ progress.resets >= 1


\* C21: recording never overlaps with model loading or with a transcription
\* in flight: no recorder records while a model loads or a request runs.
C21_RecordingNeverOverlapsTranscription ==
  \A s \in RecSessions :
    recorder.sessions[s].phase = "active" => ~(loading \/ modelLoading)

C23_StopCalledAtMostOnce ==
  \A s \in RecSessions : recorder.sessions[s].stops <= 1

\* C24: when stopRecording is invoked on an active session, isRecording is
\* false as soon as the call returns, before the stop-completion processing
\* has finished.
C24_NotRecordingWhenStopReturns ==
  [][(StopClick /\ recorder.sessions[recorder.ref].phase = "active")
       => ~recorder'.isRecording]_vars

\* C25: whenever a recording session has ended (normal stop, processing
\* failure, recorder error, failure during start after the stream was
\* acquired, teardown of the component) every track of its stream has been
\* stopped and its level-meter loop has been halted.
C25_EndedSessionIsReleased ==
  \A s \in RecSessions :
    (recorder.sessions[s].phase = "ended" \/ ~recorder.mounted) =>
      ~recorder.sessions[s].tracks /\ s \notin recorder.meters

\* C26: a failure of the level meter never prevents a recording: once
\* microphone access was granted the recorder is started all the same.
C26_MeterFailureDoesNotPreventRecording ==
  [][\A s \in RecSessions :
       MeterThrows(s) => recorder'.sessions[s].phase = "active"]_vars

C40_ProgressTimerStoppedAfterLoad ==
  /\ [](~modelLoading => progress.intervals = 0)
  /\ [][(~modelLoading /\ progress.value = 0 /\ progress.resets = 0
         /\ ~progress.reporting /\ ~PgStart) => progress'.value = 0]_vars


\* C38: while the component is mounted the recording flag is true only
\* while the tracks of the session's stream are live and its meter runs: no
\* user action stops the tracks or the meter and leaves the flag true.
C38_RecordingFlagMeansLiveSession ==
  (recorder.mounted /\ recorder.isRecording) =>
    /\ recorder.ref # 0
    /\ recorder.sessions[recorder.ref].tracks
    /\ recorder.ref \in recorder.meters


\* The state of the model session manager.
ManagerState ==
  IF modelLoading THEN "Loading"
  ELSE IF transcriber # NoEngine /\ currentModelRef # "" THEN "Ready"
  ELSE "Unloaded"

\* C31: the manager only goes Unloaded -> Loading, Loading -> Ready,
\* Loading -> Unloaded and, when another key is requested, Ready ->
\* (Unloaded ->) Loading; modelLoading is true exactly while a load is
\* executing; and whenever a model id is bound a handle is held that was
\* built from that id.
C31_ManagerStateMachine ==
  /\ [](modelLoading <=> pc \in {"constructing", "smoke", "backoff"})
  /\ [](currentModelRef # "" =>
          transcriber # NoEngine /\ transcriber.model = currentModelRef)
  /\ [](~modelLoading => (transcriber # NoEngine => currentModelRef # ""))
  /\ [][/\ << ManagerState, ManagerState' >> \in
             {<< "Unloaded", "Unloaded" >>, << "Loading", "Loading" >>,
              << "Ready", "Ready" >>, << "Unloaded", "Loading" >>,
              << "Loading", "Ready" >>, << "Loading", "Unloaded" >>,
              << "Ready", "Loading" >>}
         /\ ((ManagerState = "Ready" /\ ManagerState' = "Ready") =>
               UNCHANGED << transcriber, currentModelRef >>)
         /\ ((ManagerState = "Ready" /\ ManagerState' = "Loading") =>
               (/\ modelId' # currentModelRef
                /\ transcriber' = NoEngine
                /\ currentModelRef' = ""))]_vars

\* A second model has been loaded in place of the first one.
C31_Witness ==
  /\ ManagerState = "Ready"
  /\ transcriber.load = 2
  /\ lastInit.switched
  /\ lastInit.status = "returned"


\* Decoded buffers around the 0.1 s boundary at the sample rates audio
\* contexts run at.
BoundaryRates == {8000, 11025, 16000, 22050, 44100, 48000, 96000}
BoundaryClips ==
  UNION { { [len |-> n, rate |-> r, wave |-> <<19661, -19661>>, ok |-> TRUE] :
              n \in UNION { (q \div 10 - 1) .. (q \div 10 + 1) :
                              q \in {r, 16000} } } :
          r \in BoundaryRates }

\* C39: the minimum-sample gate never rejects a clip: every clip that passes
\* the duration gate (duration >= 0.1 s) has at least 1600 processed samples
\* at 16 kHz, resampled or not, so no request ends with the 'resulting audio
\* data is empty' message or the 'too short for effective transcription'
\* message.
C39_MinSampleGateNeverRejects ==
  /\ error.kind \notin {"EmptyAudio", "TooShortProcessed"}
  /\ pc \in {"resample", "infer", "retry"} =>
       Normalize(AudioData(Clips[reqClip])).len >= 1600
  /\ pc \in {"infer", "retry"} => processedAudio.len >= 1600
  /\ pc = "decode" =>
       /\ \A i \in ClipIds :
            (Clips[i].ok /\ DurationGate(Clips[i]) = "ok") =>
              /\ Normalize(AudioData(Clips[i])).len >= 1600
              /\ Analysis(AudioData(Clips[i])) \in {"ok", "TooWeak"}
       /\ \A c \in BoundaryClips :
            DurationGate(c) = "ok" => Normalize(AudioData(c)).len >= 1600

\* A clip of exactly 0.1 s, 1600 samples, has reached the engine, and a
\* resampled clip of exactly 0.1 s passes the duration gate.
C39_Witness ==
  /\ pc = "infer"
  /\ processedAudio.len = 1600
  /\ \E i \in ClipIds :
       /\ Clips[i].rate # TargetSampleRate
       /\ DurationGate(Clips[i]) = "ok"
       /\ AudioData(Clips[i]).len = 1600

\* C36: when a transcribe request that was started with a clip finishes,
\* exactly one of the two holds: the transcript is not empty, or an error or
\* outcome message is shown; a result whose text is only a leading bracketed
\* marker does not end as an empty transcript with no message.
C36_TranscriptOrMessage ==
  [][ (pc # "idle" /\ pc' = "idle" /\ reqClip # NoClip) =>
        ((transcript' # <<>>) <=> (error' = NoShown))
    ]_vars

\* C37: a model key the user sets through the selector stays the selected
\* model: the recommended-model step that follows the change never replaces
\* it, whatever the selected key and the recommended key are.
C37_SelectionIsNeverReplaced ==
  [][ \A k \in SelectableKeys : SelectModel(k) => selectedModel' = k ]_vars

\* C35: the language hint of an inference call matches the model loaded for
\* the request: in the configurations that carry a language option, and in
\* the retry, 'english' is passed exactly when the loaded model's key is an
\* English-only key, also when the loaded model is a fallback candidate.
C35_LanguageHintMatchesLoadedModel ==
  (pc \in {"infer", "retry"} /\ (pc = "infer" => icfg <= 3)) =>
    (FbLanguage = "english" <=> IsEnglishOnly(fb.successful))

\* C34: no two inference calls are outstanding on the same engine handle:
\* while a configuration's call or the retry call is awaited, no earlier
\* inference call on that handle is still running, also after a
\* configuration was abandoned because its timeout fired.
C34_OneInferenceCallPerHandle ==
  pc \in {"infer", "retry"} => abandoned # pipelineLocal

\* C33: with every timer that was set firing, a model load and a transcribe
\* request finish even if the engine never answers a call: a load does not
\* stay in its smoke test and a request does not stay in its empty-text
\* retry; the model-loading and loading flags drop.
C33_SmokeTestAndRetryEnd ==
  /\ (pc = "smoke") ~> (pc # "smoke" /\ (pc = "idle" => ~modelLoading))
  /\ (pc = "retry") ~> (pc = "idle" /\ ~loading)

\* C32: the clip assembled when a recording stops consists of exactly the
\* non-empty chunks delivered during that session, in arrival order: the
\* buffer is emptied at the start of the session, empty chunks are skipped
\* and no chunk of another session is in the clip.
C32_ClipIsTheSessionsOwnChunks ==
  \A s \in RecSessions :
    recorder.sessions[s].phase \in {"processing", "ended"} =>
      recorder.sessions[s].clip = [i \in 1 .. recorder.sessions[s].sent |-> s]

==============================================================================
